---- MODULE Spec2Model ----
(***************************************************************************)
(* Model of mcp-looker-proxy/server.js: an MCP (JSON-RPC) endpoint that    *)
(* translates tool invocations into calls against the Looker REST API,     *)
(* forwarding the bearer token of the calling request.                     *)
(*                                                                         *)
(* JavaScript strings are TLA+ strings (Len, \o and SubSeq act on them as  *)
(* on sequences of characters).  Other JavaScript values are tagged        *)
(* records [t |-> <typeof>, v |-> <value>].  Objects are TLA+ records      *)
(* whose absent properties are absent fields, except the arguments object  *)
(* whose omitted properties hold Undef.                                    *)
(***************************************************************************)
EXTENDS Integers, Sequences, FiniteSets, TLC

\* ------------------------------------------------------------------ bounds
\* Longest element listing an upstream dashboard answers with.
MaxElements == 2

\* ----------------------------------------------------------------- history
\* The methods of the requests received so far. The program keeps no such
\* record; the session properties are stated with it.
VARIABLE seen

\* --------------------------------------------------------- JavaScript values
Undef == [t |-> "undefined"]
Null == [t |-> "null"]
Str(s) == [t |-> "string", v |-> s]
Num(n) == [t |-> "number", v |-> n]
Bool(b) == [t |-> "boolean", v |-> b]
Arr(s) == [t |-> "array", v |-> s]
Obj(r) == [t |-> "object", v |-> r]

\* ToBoolean: undefined, null, "", 0 and false are falsy.
Truthy(x) ==
  CASE x.t = "undefined" -> FALSE
    [] x.t = "null" -> FALSE
    [] x.t = "string" -> x.v # ""
    [] x.t = "number" -> x.v # 0
    [] x.t = "boolean" -> x.v
    [] OTHER -> TRUE

\* x.toString() of a number or string, and `${x}` of a primitive.
ToStr(x) ==
  CASE x.t = "undefined" -> "undefined"
    [] x.t = "null" -> "null"
    [] x.t = "string" -> x.v
    [] x.t = "number" -> ToString(x.v)
    [] x.t = "boolean" -> (IF x.v THEN "true" ELSE "false")
    [] OTHER -> "[object Object]"

\* String.prototype.startsWith, slice(from) and includes.
StartsWith(s, p) == Len(s) >= Len(p) /\ SubSeq(s, 1, Len(p)) = p
Slice(s, from) == SubSeq(s, from + 1, Len(s))
Includes(s, n) ==
  \E i \in 1..(Len(s) - Len(n) + 1) : SubSeq(s, i, i + Len(n) - 1) = n

\* ------------------------------------------------------------ configuration
LOOKER_BASE_URL == "https://loveholidays.cloud.looker.com"

\* ------------------------------------------------------------- the registry
\* The names of the `tools` array, in declaration order.
ToolNames ==
  << "get_models", "get_explores", "get_dimensions", "get_measures",
     "get_filters", "get_parameters", "query", "query_sql", "query_url",
     "get_dashboards", "run_dashboard", "make_dashboard",
     "add_dashboard_element", "get_looks", "run_look", "make_look",
     "get_connections", "get_connection_databases", "get_connection_schemas",
     "get_connection_tables", "get_connection_table_columns", "get_projects",
     "get_project_files", "get_project_file", "create_project_file",
     "update_project_file", "delete_project_file", "dev_mode",
     "generate_embed_url", "health_pulse", "health_analyze", "health_vacuum",
     "conversational_analytics" >>

\* Variant: one descriptor declared under a misspelt name.
Descriptor_Typo(n) == [name |-> IF n = Str("get_looks") THEN Str("get_look") ELSE n]

\* A descriptor of the catalog; the description and the input schema are
\* never read by the server and are left out.
Descriptor(n) == [name |-> n]

\* ------------------------------------------------------ credential extraction
\* Variant: the prefix cut one character short, slice(6).
ExtractToken_Slice6(authHeader) ==
  IF authHeader.t = "undefined" THEN Null
  ELSE IF StartsWith(authHeader.v, "Bearer ") THEN Str(Slice(authHeader.v, 6))
  ELSE Null

\* server.js:864  authHeader?.startsWith('Bearer ') ? authHeader.slice(7) : null
ExtractToken(authHeader) ==
  IF authHeader.t = "undefined" THEN Null
  ELSE IF StartsWith(authHeader.v, "Bearer ") THEN Str(Slice(authHeader.v, 7))
  ELSE Null

\* ---------------------------------------------------------- object helpers
EmptyObject == [k \in {} |-> Undef]
Has(o, k) == k \in DOMAIN o
\* o.k of an object value: undefined when the property is absent.
Get(o, k) == IF o.t = "object" /\ Has(o.v, k) THEN o.v[k] ELSE Undef
\* o.k = x
Put(o, k, x) == (k :> x) @@ o
\* a || b
OrElse(a, b) == IF Truthy(a) THEN a ELSE b

\* URLSearchParams serialisation of one character (form-urlencoded) and
\* encodeURIComponent of one character, for the characters arguments use.
FormChar(c) ==
  CASE c = " " -> "+"
    [] c = "/" -> "%2F"
    [] c = "&" -> "%26"
    [] OTHER -> c
UriChar(c) ==
  CASE c = " " -> "%20"
    [] c = "/" -> "%2F"
    [] c = "&" -> "%26"
    [] OTHER -> c
RECURSIVE FormEncode(_)
FormEncode(s) ==
  IF s = "" THEN "" ELSE FormChar(SubSeq(s, 1, 1)) \o FormEncode(Slice(s, 1))
RECURSIVE encodeURIComponent(_)
encodeURIComponent(s) ==
  IF s = "" THEN "" ELSE UriChar(SubSeq(s, 1, 1)) \o encodeURIComponent(Slice(s, 1))

\* ---------------------------------------------------------- JSON.stringify
\* Property order of the objects this server serialises (insertion order).
KeyOrder ==
  << "jsonrpc", "id", "result", "error", "code", "message",
     "protocolVersion", "capabilities", "serverInfo", "tools", "listChanged",
     "content", "type", "text",
     "element_id", "query_id", "name", "label", "version", "title", "description",
     "hidden", "has_content", "sql", "suggest_explore", "suggest_dimension",
     "suggestions", "default_value", "allowed_values", "slug", "url", "share_url",
     "data", "success", "dev_mode", "connections", "running_queries", "project",
     "validation", "model", "content_usage", "project_files", "details",
     "personal_folder_id", "workspace_id", "explores", "fields", "dimensions",
     "measures", "filters", "parameters", "project_name", "valid" >>

RECURSIVE Spaces(_)
Spaces(n) == IF n = 0 THEN "" ELSE " " \o Spaces(n - 1)

\* The JSON escape of one character, then of a string in quotes.
EscapeChar(c) ==
  CASE c = "\"" -> "\\\""
    [] c = "\\" -> "\\\\"
    [] c = "\n" -> "\\n"
    [] OTHER -> c
RECURSIVE Escape(_)
Escape(s) ==
  IF Len(s) = 0 THEN ""
  ELSE IF Len(s) = 1 THEN EscapeChar(s)
  ELSE Escape(SubSeq(s, 1, Len(s) \div 2)) \o Escape(Slice(s, Len(s) \div 2))
\* Variant: the string put between quotes as it is.
Quote_NoEscape(s) == "\"" \o s \o "\""

Quote(s) == "\"" \o Escape(s) \o "\""

\* The keys of KeyOrder from position i on that the object has with a value
\* JSON can carry (undefined properties are dropped).
RECURSIVE LiveKeys(_, _)
LiveKeys(o, i) ==
  IF i > Len(KeyOrder) THEN <<>>
  ELSE (IF Has(o, KeyOrder[i]) /\ o[KeyOrder[i]].t # "undefined"
          THEN <<KeyOrder[i]>> ELSE <<>>) \o LiveKeys(o, i + 1)

\* JSON.stringify(x, null, 2) of a value nested at indentation ind.
RECURSIVE Stringify(_, _)
RECURSIVE StringifyItems(_, _)
RECURSIVE StringifyProps(_, _, _)
Stringify(x, ind) ==
  CASE x.t = "string" -> Quote(x.v)
    [] x.t = "number" -> ToString(x.v)
    [] x.t = "boolean" -> (IF x.v THEN "true" ELSE "false")
    [] x.t = "array" ->
         IF x.v = <<>> THEN "[]"
         ELSE "[\n" \o StringifyItems(x.v, ind + 2) \o "\n" \o Spaces(ind) \o "]"
    [] x.t = "object" ->
         IF LiveKeys(x.v, 1) = <<>> THEN "{}"
         ELSE "{\n" \o StringifyProps(x.v, LiveKeys(x.v, 1), ind + 2)
              \o "\n" \o Spaces(ind) \o "}"
    [] OTHER -> "null"
StringifyItems(items, ind) ==
  IF items = <<>> THEN ""
  ELSE Spaces(ind) \o Stringify(items[1], ind)
       \o (IF Len(items) > 1 THEN ",\n" ELSE "") \o StringifyItems(Tail(items), ind)
StringifyProps(o, keys, ind) ==
  IF keys = <<>> THEN ""
  ELSE Spaces(ind) \o Quote(keys[1]) \o ": " \o Stringify(o[keys[1]], ind)
       \o (IF Len(keys) > 1 THEN ",\n" ELSE "") \o StringifyProps(o, Tail(keys), ind)

\* JSON.stringify(toolResult, null, 2): undefined for undefined.
JSONStringify(x) == IF x.t = "undefined" THEN Undef ELSE Str(Stringify(x, 0))

\* -------------------------------------------------------- the upstream API
\* What fetch() can produce: a rejection (network failure) or a response
\* with a status, a content-type header (null when missing) and a body.
\* A body is either the JSON encoding of a value or raw text that is not JSON.
NetFailure == [k |-> "net"]
JsonBody(x) == [enc |-> "json", value |-> x]
RawBody(s) == [enc |-> "raw", text |-> s]
\* The text of a body, as response.text() gives it.
BodyText(body) ==
  IF body.enc = "raw" THEN body.text ELSE Stringify(body.value, 0)
Response(status, ctype, body) ==
  [k |-> "http", status |-> status, ctype |-> ctype, body |-> body]

ErrStatuses == {401, 404, 500}
ErrBodies == {"", "Not found", "upstream said 401"}
RawTexts == {"SELECT \"a\\b\"\nFROM t"}
JsonType == Str("application/json; charset=utf-8")
TextType == Str("text/plain")

\* await-ed outcome of an async call: a value or a thrown Error(message).
Value(x) == [thrown |-> FALSE, v |-> x, msg |-> ""]
Thrown(m) == [thrown |-> TRUE, v |-> Undef, msg |-> m]

\* Variant: the rejection of fetch() is caught and null is given instead.
TransportError_Caught == Value(Null)

\* server.js:26 `await fetch(url, options)` rejecting: nothing catches it in
\* lookerApiCall, the TypeError of fetch leaves the function.
TransportError == Thrown("fetch failed")

\* Variant: the message without the upstream body text.
LookerApiError_NoBody(status, error) ==
  "Looker API error " \o ToString(status)

\* server.js:30 `Looker API error ${response.status}: ${error}`
LookerApiError(status, error) ==
  "Looker API error " \o ToString(status) \o ": " \o error

\* Variant: a body that is JSON is parsed whatever the content-type says.
lookerApiCall_Sniffed(response) ==
  IF response.k = "net" THEN TransportError
  ELSE IF ~(response.status \in 200..299)
    THEN Thrown(LookerApiError(response.status, BodyText(response.body)))
  ELSE IF response.body.enc = "json" THEN Value(response.body.value)
  ELSE IF Truthy(response.ctype) /\ Includes(response.ctype.v, "application/json")
    THEN Thrown("Unexpected token S in JSON at position 0")
  ELSE Value(Str(BodyText(response.body)))

\* server.js:10-38 lookerApiCall, from the point where fetch() settles.
lookerApiCall(response) ==
  IF response.k = "net" THEN TransportError
  ELSE IF ~(response.status \in 200..299)
    THEN Thrown(LookerApiError(response.status, BodyText(response.body)))
  ELSE IF Truthy(response.ctype) /\ Includes(response.ctype.v, "application/json")
    THEN (IF response.body.enc = "json" THEN Value(response.body.value)
          ELSE Thrown("Unexpected token S in JSON at position 0"))
  ELSE Value(Str(BodyText(response.body)))

\* Variant: the upstream credential is one the server holds, not the caller's.
Request_ServerToken(accessToken, method, path, body) ==
  [ url |-> LOOKER_BASE_URL \o path,
    method |-> method,
    authorization |-> "Bearer t1",
    contentType |-> "application/json",
    body |-> IF Truthy(body) THEN body ELSE Undef ]

\* server.js:11-24 the request lookerApiCall hands to fetch().
Request(accessToken, method, path, body) ==
  [ url |-> LOOKER_BASE_URL \o path,
    method |-> method,
    authorization |-> "Bearer " \o ToStr(accessToken),
    contentType |-> "application/json",
    body |-> IF Truthy(body) THEN body ELSE Undef ]

\* ------------------------------------------------------- executor outcomes
\* executeTool runs until it awaits an upstream call, returns or throws.
Await(call, loc) == [k |-> "call", call |-> call, loc |-> loc, v |-> Undef, msg |-> ""]
Return(x) == [k |-> "return", call |-> Undef, loc |-> Undef, v |-> x, msg |-> ""]
Throw(m) == [k |-> "throw", call |-> Undef, loc |-> Undef, v |-> Undef, msg |-> m]

\* The locals of executeTool that live across an await.
Loc0 ==
  [ step |-> "start", me |-> Undef, createdQuery |-> Undef,
    elements |-> <<>>, idx |-> 0, results |-> <<>> ]
At(loc, step) == [loc EXCEPT !.step = step]

\* x.map(f) of the value x: a TypeError unless x is an array.
MapOr(x, what, F(_)) ==
  IF x.t = "array" THEN Return(Arr([i \in DOMAIN x.v |-> F(x.v[i])]))
  ELSE Throw(what \o ".map is not a function")

\* x?.map(f) || [] of a property x of an object.
OptMapOr(x, what, F(_)) ==
  IF x.t \in {"undefined", "null"} THEN Return(Arr(<<>>))
  ELSE MapOr(x, what, F)

\* A tool of one upstream call whose outcome Then(value) decides.
OneCall(call, loc, ret, Then(_)) ==
  IF loc.step = "start" THEN Await(call, At(loc, "called"))
  ELSE IF ret.thrown THEN Throw(ret.msg)
  ELSE Then(ret.v)

\* ------------------------------------------------------------------ tools
\* The arguments of one lookerApiCall(accessToken, method, path, body).
Call(method, path, body) == [method |-> method, path |-> path, body |-> body]

\* { k: m.k, ... } for the allow-listed keys.
Pick(m, keys) == Obj([k \in keys |-> Get(m, k)])

\* Variant: args.limit || 500 taken before the conversion to a string.
LimitOf_Falsy(args) ==
  IF Truthy(args.limit) THEN Str(ToStr(args.limit)) ELSE Str("500")

\* args.limit?.toString() || '500'
LimitOf(args) ==
  IF args.limit.t \in {"undefined", "null"} THEN Str("500")
  ELSE OrElse(Str(ToStr(args.limit)), Str("500"))

\* The query object of query, query_sql (server.js:555-564, 569-578).
QueryObject(args) ==
  [ model |-> args.model, view |-> args.explore, fields |-> args.fields,
    filters |-> OrElse(args.filters, Obj(EmptyObject)),
    pivots |-> OrElse(args.pivots, Arr(<<>>)),
    sorts |-> OrElse(args.sorts, Arr(<<>>)),
    limit |-> LimitOf(args),
    query_timezone |-> args.tz ]

\* The query object of query_url, add_dashboard_element, make_look
\* (server.js:583-593, 647-657, 691-701).
VisQueryObject(args) ==
  Put(QueryObject(args), "vis_config", OrElse(args.vis_config, Obj(EmptyObject)))

ExplorePath(args) ==
  "/api/4.0/lookml_models/" \o ToStr(args.model) \o "/explores/" \o ToStr(args.explore)

FieldKeys == {"name", "label", "type", "description", "sql", "suggest_explore",
              "suggest_dimension", "suggestions"}

get_models(args, loc, ret) ==
  OneCall(Call("GET", "/api/4.0/lookml_models", Undef), loc, ret,
          LAMBDA models : MapOr(models, "models",
              LAMBDA m : Pick(m, {"name", "label", "has_content"})))

get_explores(args, loc, ret) ==
  OneCall(Call("GET", "/api/4.0/lookml_models/" \o ToStr(args.model), Undef),
          loc, ret,
          LAMBDA model : OptMapOr(Get(model, "explores"), "model.explores",
              LAMBDA e : Pick(e, {"name", "label", "description", "hidden"})))

get_dimensions(args, loc, ret) ==
  OneCall(Call("GET", ExplorePath(args), Undef), loc, ret,
          LAMBDA explore :
            OptMapOr(Get(Get(explore, "fields"), "dimensions"),
                     "explore.fields.dimensions",
                     LAMBDA d : Pick(d, FieldKeys)))

get_measures(args, loc, ret) ==
  OneCall(Call("GET", ExplorePath(args), Undef), loc, ret,
          LAMBDA explore :
            OptMapOr(Get(Get(explore, "fields"), "measures"),
                     "explore.fields.measures",
                     LAMBDA m : Pick(m, FieldKeys)))

get_filters(args, loc, ret) ==
  OneCall(Call("GET", ExplorePath(args), Undef), loc, ret,
          LAMBDA explore :
            OptMapOr(Get(Get(explore, "fields"), "filters"),
                     "explore.fields.filters",
                     LAMBDA f : Pick(f, {"name", "label", "type", "description"})))

get_parameters(args, loc, ret) ==
  OneCall(Call("GET", ExplorePath(args), Undef), loc, ret,
          LAMBDA explore :
            OptMapOr(Get(Get(explore, "fields"), "parameters"),
                     "explore.fields.parameters",
                     LAMBDA q : Pick(q, {"name", "label", "type", "description",
                                         "default_value", "allowed_values"})))

query(args, loc, ret) ==
  OneCall(Call("POST", "/api/4.0/queries/run/json", Obj(QueryObject(args))),
          loc, ret, LAMBDA x : Return(x))

query_sql(args, loc, ret) ==
  OneCall(Call("POST", "/api/4.0/queries/run/sql", Obj(QueryObject(args))),
          loc, ret, LAMBDA x : Return(x))

query_url(args, loc, ret) ==
  OneCall(Call("POST", "/api/4.0/queries", Obj(VisQueryObject(args))), loc, ret,
          LAMBDA createdQuery : Return(Obj(
            [ id |-> Get(createdQuery, "id"),
              slug |-> Get(createdQuery, "slug"),
              url |-> Str(LOOKER_BASE_URL \o "/explore/" \o ToStr(args.model)
                          \o "/" \o ToStr(args.explore) \o "?qid="
                          \o ToStr(Get(createdQuery, "slug"))),
              share_url |-> Get(createdQuery, "share_url") ])))

\* new URLSearchParams() with the truthy arguments appended, then
\* (params.toString() ? `?${params}` : '')
RECURSIVE JoinParams(_)
JoinParams(pairs) ==
  IF pairs = <<>> THEN ""
  ELSE pairs[1][1] \o "=" \o FormEncode(pairs[1][2])
       \o (IF Len(pairs) > 1 THEN "&" ELSE "") \o JoinParams(Tail(pairs))
Param(args, arg, key) ==
  IF Truthy(args[arg]) THEN << <<key, ToStr(args[arg])>> >> ELSE <<>>
\* Variant: '?' + params whether or not there are any.
QueryString_Always(pairs) == "?" \o JoinParams(pairs)

QueryString(pairs) ==
  IF JoinParams(pairs) # "" THEN "?" \o JoinParams(pairs) ELSE ""
SearchParams(args) ==
  Param(args, "title", "title") \o Param(args, "desc", "description")
  \o Param(args, "limit", "limit") \o Param(args, "offset", "offset")

get_dashboards(args, loc, ret) ==
  OneCall(Call("GET", "/api/4.0/dashboards" \o QueryString(SearchParams(args)), Undef),
          loc, ret, LAMBDA x : Return(x))

get_looks(args, loc, ret) ==
  OneCall(Call("GET", "/api/4.0/looks" \o QueryString(SearchParams(args)), Undef),
          loc, ret, LAMBDA x : Return(x))

run_look(args, loc, ret) ==
  OneCall(Call("GET", "/api/4.0/looks/" \o ToStr(args.look_id) \o "/run/json"
                 \o (IF Truthy(args.limit) THEN "?limit=" \o ToStr(args.limit) ELSE ""),
               Undef),
          loc, ret, LAMBDA x : Return(x))

\* The elements a for...of loop over x visits: the items of an array, the
\* characters of a string (none of which has a query_id); other values are
\* not iterable.
Iterable(x) == x.t \in {"array", "string"}
ItemsOf(x) ==
  IF x.t = "array" THEN x.v ELSE [i \in 1..Len(x.v) |-> Str(SubSeq(x.v, i, i))]

\* Index of the first element after position i that has a truthy query_id,
\* 0 when there is none.
\* Variant: the next element, whether or not it references a query.
NextQueryElement_All(elements, i) ==
  IF i + 1 <= Len(elements) THEN i + 1 ELSE 0

NextQueryElement(elements, i) ==
  LET later == { n \in (i + 1)..Len(elements) :
                   Truthy(Get(elements[n], "query_id")) }
  IN IF later = {} THEN 0
     ELSE CHOOSE n \in later : \A m \in later : n <= m

\* server.js:617-627 the loop of run_dashboard from element i on, up to its
\* next await or to the return.
\* Variant: the element at i is run again instead of going on to the next.
RunElementsFrom_Again(loc, i) ==
  LET n == IF i > 0 THEN i ELSE NextQueryElement(loc.elements, i) IN
  IF n = 0 THEN Return(Arr(loc.results))
  ELSE Await(Call("GET", "/api/4.0/queries/"
                         \o ToStr(Get(loc.elements[n], "query_id")) \o "/run/json",
                  Undef),
             [loc EXCEPT !.step = "element", !.idx = n])

RunElementsFrom(loc, i) ==
  LET n == NextQueryElement(loc.elements, i) IN
  IF n = 0 THEN Return(Arr(loc.results))
  ELSE Await(Call("GET", "/api/4.0/queries/"
                         \o ToStr(Get(loc.elements[n], "query_id")) \o "/run/json",
                  Undef),
             [loc EXCEPT !.step = "element", !.idx = n])

\* Variant: the catch block pushes the entry without the error message.
ElementEntry_NoError(element, ret) ==
  Obj([element_id |-> Get(element, "id"), title |-> Get(element, "title"),
       data |-> ret.v])

\* server.js:619-624 the entry pushed for an element.
ElementEntry(element, ret) ==
  IF ret.thrown
    THEN Obj([element_id |-> Get(element, "id"), title |-> Get(element, "title"),
              error |-> Str(ret.msg)])
    ELSE Obj([element_id |-> Get(element, "id"), title |-> Get(element, "title"),
              data |-> ret.v])

\* Variant: a failed listing counts as a dashboard without elements.
run_dashboard_Lenient(args, loc, ret) ==
  CASE loc.step = "start" ->
         Await(Call("GET", "/api/4.0/dashboards/" \o ToStr(args.dashboard_id)
                           \o "/dashboard_elements", Undef),
               At(loc, "elements"))
    [] loc.step = "elements" ->
         IF ret.thrown THEN Return(Arr(<<>>))
         ELSE IF ~Iterable(ret.v) THEN Throw("elements is not iterable")
         ELSE RunElementsFrom([loc EXCEPT !.elements = ItemsOf(ret.v)], 0)
    [] loc.step = "element" ->
         RunElementsFrom(
           [loc EXCEPT !.results =
              Append(loc.results, ElementEntry(loc.elements[loc.idx], ret))],
           loc.idx)

run_dashboard(args, loc, ret) ==
  CASE loc.step = "start" ->
         Await(Call("GET", "/api/4.0/dashboards/" \o ToStr(args.dashboard_id)
                           \o "/dashboard_elements", Undef),
               At(loc, "elements"))
    [] loc.step = "elements" ->
         IF ret.thrown THEN Throw(ret.msg)
         ELSE IF ~Iterable(ret.v) THEN Throw("elements is not iterable")
         ELSE RunElementsFrom([loc EXCEPT !.elements = ItemsOf(ret.v)], 0)
    [] loc.step = "element" ->
         RunElementsFrom(
           [loc EXCEPT !.results =
              Append(loc.results, ElementEntry(loc.elements[loc.idx], ret))],
           loc.idx)

\* server.js:633-637 and 705-710: the bodies of the creation requests
\* (LookBody_UserId: a variant referencing the user's id as the query).
DashboardBody(args, me) ==
  Obj([ title |-> args.title,
        description |-> OrElse(args.description, Str("")),
        folder_id |-> Get(me, "personal_folder_id") ])
LookBody_UserId(args, me, createdQuery) ==
  Obj([ title |-> args.title,
        description |-> OrElse(args.description, Str("")),
        folder_id |-> Get(me, "personal_folder_id"),
        query_id |-> Get(me, "id") ])
LookBody(args, me, createdQuery) ==
  Obj([ title |-> args.title,
        description |-> OrElse(args.description, Str("")),
        folder_id |-> Get(me, "personal_folder_id"),
        query_id |-> Get(createdQuery, "id") ])
\* server.js:638-642 and 711-715: the result for the created artifact.
Created(artifact, path) ==
  Obj([ id |-> Get(artifact, "id"),
        title |-> Get(artifact, "title"),
        url |-> Str(LOOKER_BASE_URL \o path \o ToStr(Get(artifact, "id"))) ])

make_dashboard(args, loc, ret) ==
  CASE loc.step = "start" ->
         Await(Call("GET", "/api/4.0/user", Undef), At(loc, "me"))
    [] loc.step = "me" ->
         IF ret.thrown THEN Throw(ret.msg)
         ELSE Await(Call("POST", "/api/4.0/dashboards", DashboardBody(args, ret.v)),
                    [loc EXCEPT !.step = "dashboard", !.me = ret.v])
    [] loc.step = "dashboard" ->
         IF ret.thrown THEN Throw(ret.msg)
         ELSE Return(Created(ret.v, "/dashboards/"))

\* Variant: the element is created whatever became of the query's creation.
add_dashboard_element_Unchecked(args, loc, ret) ==
  CASE loc.step = "start" ->
         Await(Call("POST", "/api/4.0/queries", Obj(VisQueryObject(args))),
               At(loc, "createdQuery"))
    [] loc.step = "createdQuery" ->
         Await(Call("POST", "/api/4.0/dashboard_elements",
                    Obj([ dashboard_id |-> args.dashboard_id,
                          query_id |-> Get(ret.v, "id"),
                          title |-> OrElse(args.title, Str("")),
                          type |-> Str("vis") ])),
               [loc EXCEPT !.step = "element", !.createdQuery = ret.v])
    [] loc.step = "element" ->
         IF ret.thrown THEN Throw(ret.msg)
         ELSE Return(Obj([ element_id |-> Get(ret.v, "id"),
                           query_id |-> Get(loc.createdQuery, "id") ]))

add_dashboard_element(args, loc, ret) ==
  CASE loc.step = "start" ->
         Await(Call("POST", "/api/4.0/queries", Obj(VisQueryObject(args))),
               At(loc, "createdQuery"))
    [] loc.step = "createdQuery" ->
         IF ret.thrown THEN Throw(ret.msg)
         ELSE Await(Call("POST", "/api/4.0/dashboard_elements",
                         Obj([ dashboard_id |-> args.dashboard_id,
                               query_id |-> Get(ret.v, "id"),
                               title |-> OrElse(args.title, Str("")),
                               type |-> Str("vis") ])),
                    [loc EXCEPT !.step = "element", !.createdQuery = ret.v])
    [] loc.step = "element" ->
         IF ret.thrown THEN Throw(ret.msg)
         ELSE Return(Obj([ element_id |-> Get(ret.v, "id"),
                           query_id |-> Get(loc.createdQuery, "id") ]))

make_look(args, loc, ret) ==
  CASE loc.step = "start" ->
         Await(Call("GET", "/api/4.0/user", Undef), At(loc, "me"))
    [] loc.step = "me" ->
         IF ret.thrown THEN Throw(ret.msg)
         ELSE Await(Call("POST", "/api/4.0/queries", Obj(VisQueryObject(args))),
                    [loc EXCEPT !.step = "createdQuery", !.me = ret.v])
    [] loc.step = "createdQuery" ->
         IF ret.thrown THEN Throw(ret.msg)
         ELSE Await(Call("POST", "/api/4.0/looks", LookBody(args, loc.me, ret.v)),
                    [loc EXCEPT !.step = "look", !.createdQuery = ret.v])
    [] loc.step = "look" ->
         IF ret.thrown THEN Throw(ret.msg)
         ELSE Return(Created(ret.v, "/looks/"))

\* Variant: the call wrapped in a try/catch that returns the failure as data.
get_connections_Caught(args, loc, ret) ==
  IF loc.step = "start"
    THEN Await(Call("GET", "/api/4.0/connections", Undef), At(loc, "called"))
  ELSE IF ret.thrown THEN Return(Obj([error |-> Str(ret.msg)]))
  ELSE Return(ret.v)

get_connections(args, loc, ret) ==
  OneCall(Call("GET", "/api/4.0/connections", Undef), loc, ret, LAMBDA x : Return(x))

get_connection_databases(args, loc, ret) ==
  OneCall(Call("GET", "/api/4.0/connections/" \o ToStr(args.connection_name)
                      \o "/databases", Undef),
          loc, ret, LAMBDA x : Return(x))

get_connection_schemas(args, loc, ret) ==
  OneCall(Call("GET", "/api/4.0/connections/" \o ToStr(args.connection_name)
                      \o "/schemas"
                      \o (IF Truthy(args.database)
                            THEN "?database=" \o encodeURIComponent(ToStr(args.database))
                            ELSE ""),
               Undef),
          loc, ret, LAMBDA x : Return(x))

get_connection_tables(args, loc, ret) ==
  OneCall(Call("GET", "/api/4.0/connections/" \o ToStr(args.connection_name)
                      \o "/tables"
                      \o QueryString(Param(args, "database", "database")
                                     \o Param(args, "schema", "schema_name")),
               Undef),
          loc, ret, LAMBDA x : Return(x))

get_connection_table_columns(args, loc, ret) ==
  OneCall(Call("POST", "/api/4.0/connections/columns",
               Obj([ connection_name |-> args.connection_name,
                     database |-> args.database,
                     schema_name |-> args.schema,
                     table_names |-> args.tables ])),
          loc, ret, LAMBDA x : Return(x))

\* Variant: a failed call is tried once more before the failure is raised.
get_projects_Retried(args, loc, ret) ==
  CASE loc.step = "start" ->
         Await(Call("GET", "/api/4.0/projects", Undef), At(loc, "called"))
    [] loc.step = "called" /\ ret.thrown ->
         Await(Call("GET", "/api/4.0/projects", Undef), At(loc, "retried"))
    [] OTHER -> IF ret.thrown THEN Throw(ret.msg) ELSE Return(ret.v)

get_projects(args, loc, ret) ==
  OneCall(Call("GET", "/api/4.0/projects", Undef), loc, ret, LAMBDA x : Return(x))

ProjectFiles(args) == "/api/4.0/projects/" \o ToStr(args.project_id) \o "/files"
ProjectFile(args) == ProjectFiles(args) \o "/" \o encodeURIComponent(ToStr(args.file_id))

get_project_files(args, loc, ret) ==
  OneCall(Call("GET", ProjectFiles(args), Undef), loc, ret, LAMBDA x : Return(x))

get_project_file(args, loc, ret) ==
  OneCall(Call("GET", ProjectFile(args), Undef), loc, ret, LAMBDA x : Return(x))

create_project_file(args, loc, ret) ==
  OneCall(Call("POST", ProjectFiles(args),
               Obj([path |-> args.file_name, content |-> args.content])),
          loc, ret, LAMBDA x : Return(x))

update_project_file(args, loc, ret) ==
  OneCall(Call("PATCH", ProjectFile(args), Obj([content |-> args.content])),
          loc, ret, LAMBDA x : Return(x))

delete_project_file(args, loc, ret) ==
  OneCall(Call("DELETE", ProjectFile(args), Undef), loc, ret,
          LAMBDA x : Return(Obj([success |-> Bool(TRUE)])))

dev_mode(args, loc, ret) ==
  OneCall(Call("PATCH", "/api/4.0/session",
               Obj([workspace_id |->
                      IF Truthy(args.enable) THEN Str("dev") ELSE Str("production")])),
          loc, ret,
          LAMBDA session :
            Return(Obj([dev_mode |-> Bool(Get(session, "workspace_id") = Str("dev"))])))

generate_embed_url(args, loc, ret) ==
  OneCall(Call("POST", "/api/4.0/embed/sso_url",
               Obj([ target_url |-> args.target_url,
                     session_length |-> OrElse(args.session_length, Num(600)),
                     force_logout_login |-> OrElse(args.force_logout_login, Bool(FALSE)) ])),
          loc, ret, LAMBDA x : Return(x))

\* catch (e) { results.error = e.message }  return results
Caught(results, ret) == Return(Obj(Put(results, "error", Str(ret.msg))))

health_pulse(args, loc, ret) ==
  CASE loc.step = "start" ->
         Await(Call("GET", "/api/4.0/connections", Undef),
               [loc EXCEPT !.step = "connections", !.results = EmptyObject])
    [] loc.step = "connections" ->
         IF ret.thrown THEN Caught(loc.results, ret)
         ELSE Await(Call("GET", "/api/4.0/running_queries", Undef),
                    [loc EXCEPT !.step = "running_queries",
                                !.results = Put(loc.results, "connections", ret.v)])
    [] loc.step = "running_queries" ->
         IF ret.thrown THEN Caught(loc.results, ret)
         ELSE Return(Obj(Put(loc.results, "running_queries", ret.v)))

\* server.js:818-821 the rest of health_analyze after the project section.
AnalyzeModel(args, loc) ==
  IF Truthy(args.model)
    THEN Await(Call("GET", "/api/4.0/lookml_models/" \o ToStr(args.model), Undef),
               At(loc, "model"))
    ELSE Return(Obj(loc.results))

health_analyze(args, loc, ret) ==
  CASE loc.step = "start" ->
         IF Truthy(args.project)
           THEN Await(Call("GET", "/api/4.0/projects/" \o ToStr(args.project), Undef),
                      [loc EXCEPT !.step = "project", !.results = EmptyObject])
           ELSE AnalyzeModel(args, [loc EXCEPT !.results = EmptyObject])
    [] loc.step = "project" ->
         IF ret.thrown THEN Throw(ret.msg)
         ELSE Await(Call("POST", "/api/4.0/projects/" \o ToStr(args.project)
                                 \o "/validate", Undef),
                    [loc EXCEPT !.step = "validation",
                                !.results = Put(loc.results, "project", ret.v)])
    [] loc.step = "validation" ->
         IF ret.thrown THEN Throw(ret.msg)
         ELSE AnalyzeModel(args,
                [loc EXCEPT !.results = Put(loc.results, "validation", ret.v)])
    [] loc.step = "model" ->
         IF ret.thrown THEN Throw(ret.msg)
         ELSE Return(Obj(Put(loc.results, "model", ret.v)))

health_vacuum(args, loc, ret) ==
  CASE loc.step = "start" ->
         Await(Call("GET", "/api/4.0/content_metadata_access?limit=100", Undef),
               [loc EXCEPT !.step = "content_usage", !.results = EmptyObject])
    [] loc.step = "content_usage" ->
         IF ret.thrown THEN Caught(loc.results, ret)
         ELSE IF Truthy(args.project)
           THEN Await(Call("GET", "/api/4.0/projects/" \o ToStr(args.project)
                                  \o "/files", Undef),
                      [loc EXCEPT !.step = "project_files",
                                  !.results = Put(loc.results, "content_usage", ret.v)])
           ELSE Return(Obj(Put(loc.results, "content_usage", ret.v)))
    [] loc.step = "project_files" ->
         IF ret.thrown THEN Caught(loc.results, ret)
         ELSE Return(Obj(Put(loc.results, "project_files", ret.v)))

conversational_analytics(args, loc, ret) ==
  IF loc.step = "start"
    THEN Await(Call("POST", "/api/4.0/conversational_analytics/query",
                    Obj([ query |-> args.question, model |-> args.model,
                          explore |-> args.explore ])),
               At(loc, "called"))
  ELSE IF ret.thrown
    THEN Return(Obj(
      [ error |-> Str("Conversational Analytics API may not be enabled on this instance"),
        details |-> Str(ret.msg) ]))
  ELSE Return(ret.v)

\* server.js:481-856 executeTool, from its entry (loc.step = "start") or from
\* the await that just settled with ret, up to the next await, return or throw.
\* Variant: a name without a case is forwarded to the upstream.
UnknownTool_Forwarded(toolName) ==
  Await(Call("GET", "/api/4.0/" \o ToStr(toolName), Undef), Loc0)

UnknownTool(toolName) == Throw("Unknown tool: " \o ToStr(toolName))

executeTool(toolName, args, accessToken, loc, ret) ==
  IF loc.step = "start" /\ ~Truthy(accessToken)
    THEN Throw("OAuth authentication required")
  ELSE CASE toolName = Str("get_models") -> get_models(args, loc, ret)
    [] toolName = Str("get_explores") -> get_explores(args, loc, ret)
    [] toolName = Str("get_dimensions") -> get_dimensions(args, loc, ret)
    [] toolName = Str("get_measures") -> get_measures(args, loc, ret)
    [] toolName = Str("get_filters") -> get_filters(args, loc, ret)
    [] toolName = Str("get_parameters") -> get_parameters(args, loc, ret)
    [] toolName = Str("query") -> query(args, loc, ret)
    [] toolName = Str("query_sql") -> query_sql(args, loc, ret)
    [] toolName = Str("query_url") -> query_url(args, loc, ret)
    [] toolName = Str("get_dashboards") -> get_dashboards(args, loc, ret)
    [] toolName = Str("run_dashboard") -> run_dashboard(args, loc, ret)
    [] toolName = Str("make_dashboard") -> make_dashboard(args, loc, ret)
    [] toolName = Str("add_dashboard_element") -> add_dashboard_element(args, loc, ret)
    [] toolName = Str("get_looks") -> get_looks(args, loc, ret)
    [] toolName = Str("run_look") -> run_look(args, loc, ret)
    [] toolName = Str("make_look") -> make_look(args, loc, ret)
    [] toolName = Str("get_connections") -> get_connections(args, loc, ret)
    [] toolName = Str("get_connection_databases") -> get_connection_databases(args, loc, ret)
    [] toolName = Str("get_connection_schemas") -> get_connection_schemas(args, loc, ret)
    [] toolName = Str("get_connection_tables") -> get_connection_tables(args, loc, ret)
    [] toolName = Str("get_connection_table_columns") ->
         get_connection_table_columns(args, loc, ret)
    [] toolName = Str("get_projects") -> get_projects(args, loc, ret)
    [] toolName = Str("get_project_files") -> get_project_files(args, loc, ret)
    [] toolName = Str("get_project_file") -> get_project_file(args, loc, ret)
    [] toolName = Str("create_project_file") -> create_project_file(args, loc, ret)
    [] toolName = Str("update_project_file") -> update_project_file(args, loc, ret)
    [] toolName = Str("delete_project_file") -> delete_project_file(args, loc, ret)
    [] toolName = Str("dev_mode") -> dev_mode(args, loc, ret)
    [] toolName = Str("generate_embed_url") -> generate_embed_url(args, loc, ret)
    [] toolName = Str("health_pulse") -> health_pulse(args, loc, ret)
    [] toolName = Str("health_analyze") -> health_analyze(args, loc, ret)
    [] toolName = Str("health_vacuum") -> health_vacuum(args, loc, ret)
    [] toolName = Str("conversational_analytics") ->
         conversational_analytics(args, loc, ret)
    [] OTHER -> UnknownTool(toolName)

\* ------------------------------------------------------------- dispatcher
\* Variant: a request without id is answered with "id": null.
Envelope_NullId(id, key, payload) ==
  ("jsonrpc" :> Str("2.0")) @@ ("id" :> (IF id.t = "undefined" THEN Null ELSE id))
    @@ (key :> payload)

\* What res.json(obj) puts on the wire: undefined properties are dropped, so
\* the envelope of a request without id has no id.
Envelope(id, key, payload) ==
  IF id.t = "undefined"
    THEN ("jsonrpc" :> Str("2.0")) @@ (key :> payload)
    ELSE ("jsonrpc" :> Str("2.0")) @@ ("id" :> id) @@ (key :> payload)

JsonRpcError(code, message) == Obj([code |-> Num(code), message |-> Str(message)])

\* A step of handleMcpRequest ends by sending a response or awaiting executeTool.
Respond(status, body) ==
  [k |-> "respond", status |-> status, body |-> body, call |-> Undef,
   loc |-> Undef, toolResult |-> Undef, logged |-> <<>>]
RespondTool(status, body, toolResult) ==
  [Respond(status, body) EXCEPT !.toolResult = toolResult]
Pending(call, loc) ==
  [k |-> "await", status |-> 0, body |-> EmptyObject, call |-> call,
   loc |-> loc, toolResult |-> Undef, logged |-> <<>>]

\* Variant: the line of a request tells the token.
McpLine_Token(method, accessToken) ==
  "[MCP] " \o ToStr(method) \o " - Auth: " \o ToStr(accessToken)

\* server.js:866 the line logged for every request.
McpLine(method, accessToken) ==
  "[MCP] " \o ToStr(method) \o " - Auth: "
    \o (IF Truthy(accessToken) THEN "present" ELSE "missing")
\* server.js:12 the line logged for every upstream call.
LookerApiLine(call) == "[Looker API] " \o call.method \o " " \o call.path
\* server.js:936 console.error(`[MCP] Error:`, error)
ErrorLine(message) == "[MCP] Error: Error: " \o message

\* Variant: the catch block's envelope built on one that has a result already.
CatchBlock_WithResult(id, message) ==
  [Respond(IF Includes(message, "401") THEN 401 ELSE 500,
           Envelope(id, "error", JsonRpcError(-32603, message))
             @@ ("result" :> Obj(EmptyObject)))
     EXCEPT !.logged = <<ErrorLine(message)>>]

\* server.js:935-945 the catch block.
CatchBlock(id, message) ==
  [Respond(IF Includes(message, "401") THEN 401 ELSE 500,
           Envelope(id, "error", JsonRpcError(-32603, message)))
     EXCEPT !.logged = <<ErrorLine(message)>>]

\* Variant: the auth error sent without res.status(401).
AuthRequired_NoStatus(id, message) ==
  Respond(200, Envelope(id, "error", JsonRpcError(-32600, message)))

\* server.js:874-881, 908-915 the answer to a request without credential.
AuthRequired(id, message) ==
  Respond(401, Envelope(id, "error", JsonRpcError(-32600, message)))

\* Variant: the answer to an unknown method sent without res.status(400).
MethodNotFound_NoStatus(id, method) ==
  Respond(200, Envelope(id, "error",
            JsonRpcError(-32601, "Unknown method: " \o ToStr(method))))

\* server.js:923-932 the answer to a method the dispatcher does not know.
MethodNotFound(id, method) ==
  Respond(400, Envelope(id, "error",
            JsonRpcError(-32601, "Unknown method: " \o ToStr(method))))

\* Variant: the listing leaves out the last descriptor of the array.
ToolsList_Short(catalog) ==
  Obj([tools |-> Arr(SubSeq(catalog, 1, Len(catalog) - 1))])

\* server.js:902-904 result = { tools }
ToolsList(catalog) == Obj([tools |-> Arr(catalog)])

\* Variant: the capabilities announce change notifications.
InitializeResult_ListChanged ==
  Obj([ protocolVersion |-> Str("2025-06-18"),
        capabilities |-> Obj([tools |-> Obj([listChanged |-> Bool(TRUE)])]),
        serverInfo |-> Obj([name |-> Str("looker-oauth-proxy"),
                            version |-> Str("2.0.0")]) ])

\* server.js:883-892
InitializeResult ==
  Obj([ protocolVersion |-> Str("2025-06-18"),
        capabilities |-> Obj([tools |-> Obj([listChanged |-> Bool(FALSE)])]),
        serverInfo |-> Obj([name |-> Str("looker-oauth-proxy"),
                            version |-> Str("2.0.0")]) ])

\* server.js:917-921, 934 and 935-945: what follows executeTool's outcome.
AfterExecuteTool(id, out) ==
  CASE out.k = "call" -> Pending(out.call, out.loc)
    [] out.k = "throw" -> CatchBlock(id, out.msg)
    [] out.k = "return" ->
         RespondTool(200,
           Envelope(id, "result",
             Obj([content |-> Arr(<< Obj([ type |-> Str("text"),
                                          text |-> JSONStringify(out.v) ]) >>)])),
           out.v)

\* The names every arguments object is read by.
ArgNames ==
  { "model", "explore", "fields", "filters", "pivots", "sorts", "limit", "tz",
    "vis_config", "title", "desc", "offset", "dashboard_id", "description",
    "look_id", "connection_name", "database", "schema", "tables", "project_id",
    "file_id", "file_name", "content", "enable", "target_url", "session_length",
    "force_logout_login", "project", "question", "action" }

\* params.arguments || {} , read property by property.
ArgsOf(params) ==
  [k \in ArgNames |-> Get(OrElse(Get(params, "arguments"), Obj(EmptyObject)), k)]

\* Variant: a session is tracked, and a request is also turned away when no
\* initialize was received before it.
NoCredential_Session(accessToken) ==
  ~Truthy(accessToken) \/ Str("initialize") \notin seen

\* server.js:873, 907  if (!accessToken)
NoCredential(accessToken) == ~Truthy(accessToken)

\* Variant: params.name is read before the credential is tested.
handleMcpRequest_ParamsFirst(request, accessToken, catalog) ==
  LET method == request.method
      params == request.params
      id == request.id
  IN CASE method = Str("initialize") ->
            IF NoCredential(accessToken)
              THEN AuthRequired(id,
                     "OAuth authentication required. Please authenticate with Looker.")
              ELSE Respond(200, Envelope(id, "result", InitializeResult))
       [] method = Str("notifications/initialized") ->
            Respond(200, Envelope(id, "result", Obj(EmptyObject)))
       [] method = Str("ping") ->
            Respond(200, Envelope(id, "result", Obj(EmptyObject)))
       [] method = Str("tools/list") ->
            Respond(200, Envelope(id, "result", ToolsList(catalog)))
       [] method = Str("tools/call") ->
            IF params.t \in {"undefined", "null"}
              THEN CatchBlock(id,
                     "Cannot read properties of " \o ToStr(params) \o " (reading 'name')")
            ELSE IF NoCredential(accessToken)
              THEN AuthRequired(id, "OAuth authentication required")
            ELSE AfterExecuteTool(id,
                   executeTool(Get(params, "name"), ArgsOf(params), accessToken,
                               Loc0, Value(Undef)))
       [] OTHER -> MethodNotFound(id, method)

\* handleMcpRequest resumed when the awaited upstream call settles.

\* server.js:859-934 handleMcpRequest from its entry to the first await or
\* to the response; catalog is the `tools` array.
handleMcpRequest(request, accessToken, catalog) ==
  LET method == request.method
      params == request.params
      id == request.id
  IN CASE method = Str("initialize") ->
            IF NoCredential(accessToken)
              THEN AuthRequired(id,
                     "OAuth authentication required. Please authenticate with Looker.")
              ELSE Respond(200, Envelope(id, "result", InitializeResult))
       [] method = Str("notifications/initialized") ->
            Respond(200, Envelope(id, "result", Obj(EmptyObject)))
       [] method = Str("ping") ->
            Respond(200, Envelope(id, "result", Obj(EmptyObject)))
       [] method = Str("tools/list") ->
            Respond(200, Envelope(id, "result", ToolsList(catalog)))
       [] method = Str("tools/call") ->
            IF NoCredential(accessToken)
              THEN AuthRequired(id, "OAuth authentication required")
            ELSE IF params.t \in {"undefined", "null"}
              THEN CatchBlock(id,
                     "Cannot read properties of " \o ToStr(params) \o " (reading 'name')")
            ELSE AfterExecuteTool(id,
                   executeTool(Get(params, "name"), ArgsOf(params), accessToken,
                               Loc0, Value(Undef)))
       [] OTHER -> MethodNotFound(id, method)

\* handleMcpRequest resumed when the awaited upstream call settles.
resumeMcpRequest(request, accessToken, loc, response) ==
  AfterExecuteTool(request.id,
    executeTool(Get(request.params, "name"), ArgsOf(request.params),
                accessToken, loc, lookerApiCall(response)))

\* ------------------------------------------------------------------ inputs
\* Requests a client can send.  `resources/list` stands for the methods the
\* server does not implement, `run_query` and `get_401` for unregistered tools.
Methods ==
  { Str("initialize"), Str("notifications/initialized"), Str("ping"),
    Str("tools/list"), Str("tools/call"), Str("resources/list") }
Ids == { Undef, Num(7), Str("a") }
AuthHeaders ==
  { Undef, Str("Bearer t1"), Str("Bearer t2"), Str("Bearer  t1"), Str("Bearer "),
    Str("Bearer"), Str("bearer t1"), Str("Basic t1") }
UnknownTools == { "run_query", "get_401" }

QueryArgs ==
  { [model |-> Str("m"), explore |-> Str("e"), fields |-> Arr(<<Str("f")>>)],
    [model |-> Str("m"), explore |-> Str("e"), fields |-> Arr(<<Str("f")>>),
     limit |-> Num(0)],
    [model |-> Str("m"), explore |-> Str("e"), fields |-> Arr(<<Str("f")>>),
     filters |-> Obj([name |-> Str("x")]), pivots |-> Arr(<<Str("p")>>),
     sorts |-> Arr(<<Str("f")>>), limit |-> Num(25), tz |-> Str("UTC"),
     vis_config |-> Obj([type |-> Str("table")]),
     title |-> Str("T"), dashboard_id |-> Str("12")] }
SearchArgs ==
  { EmptyObject,
    [title |-> Str("Revenue")],
    [title |-> Str("Q1 Sales"), desc |-> Str("a/b"), limit |-> Num(10),
     offset |-> Num(0)] }

\* Argument objects a client sends with a tool name.
ArgumentsFor(n) ==
  CASE n \in {"query", "query_sql", "query_url", "add_dashboard_element", "make_look"} ->
         QueryArgs
    [] n \in {"get_dashboards", "get_looks"} -> SearchArgs
    [] n \in {"get_explores", "get_dimensions", "get_measures", "get_filters",
              "get_parameters"} ->
         { [model |-> Str("m"), explore |-> Str("e")] }
    [] n = "run_dashboard" -> { [dashboard_id |-> Str("12")] }
    [] n = "make_dashboard" ->
         { [title |-> Str("T")], [title |-> Str("T"), description |-> Str("D")] }
    [] n = "run_look" ->
         { [look_id |-> Str("3")], [look_id |-> Str("3"), limit |-> Num(5)] }
    [] n \in {"get_connection_databases", "get_connection_schemas",
              "get_connection_tables", "get_connection_table_columns"} ->
         { [connection_name |-> Str("db")],
           [connection_name |-> Str("db"), database |-> Str("my db"),
            schema |-> Str("s"), tables |-> Str("t1,t2")] }
    [] n \in {"get_project_files", "get_project_file", "create_project_file",
              "update_project_file", "delete_project_file"} ->
         { [project_id |-> Str("p"), file_id |-> Str("views/a.lkml"),
            file_name |-> Str("a.lkml"), content |-> Str("view: a {}")] }
    [] n = "dev_mode" -> { [enable |-> Bool(TRUE)], [enable |-> Bool(FALSE)] }
    [] n = "generate_embed_url" ->
         { [target_url |-> Str("https://x/y")],
           [target_url |-> Str("https://x/y"), session_length |-> Num(60),
            force_logout_login |-> Bool(TRUE)] }
    [] n = "health_analyze" ->
         { EmptyObject, [project |-> Str("p")], [model |-> Str("m")],
           [project |-> Str("p"), model |-> Str("m")] }
    [] n = "health_vacuum" -> { EmptyObject, [project |-> Str("p")] }
    [] n = "conversational_analytics" ->
         { [question |-> Str("q")],
           [question |-> Str("q"), model |-> Str("m"), explore |-> Str("e")] }
    [] OTHER -> { EmptyObject }

Range(f) == { f[i] : i \in DOMAIN f }

\* params of a tools/call: absent, without arguments, or with arguments.
ToolParams(names) ==
  { Undef }
  \cup { Obj([name |-> Str(n)]) : n \in names }
  \cup UNION { { Obj([name |-> Str(n), arguments |-> Obj(a)]) : a \in ArgumentsFor(n) }
               : n \in names }

\* The requests of a client that knows the names tools/list gives, the names
\* the executor implements and some names of neither.
Requests(catalog) ==
  { [method |-> m, params |-> Undef, id |-> i, authorization |-> h]
      : m \in Methods \ {Str("tools/call")}, i \in Ids, h \in AuthHeaders }
  \cup
  { [method |-> Str("tools/call"), params |-> q, id |-> i, authorization |-> h]
      : q \in ToolParams({ catalog[k].v.name.v : k \in DOMAIN catalog }
                          \cup Range(ToolNames) \cup UnknownTools),
        i \in Ids, h \in AuthHeaders }
NoRequest == [method |-> Undef, params |-> Undef, id |-> Undef, authorization |-> Undef]

\* ----------------------------------------------------- upstream's answers
Element1 == Obj([id |-> Str("e1"), title |-> Str("Sales"), query_id |-> Str("q1")])
Element2 == Obj([id |-> Str("e2"), query_id |-> Str("q2")])
Element3 == Obj([id |-> Str("e3"), title |-> Str("Note")])
ElementKinds == { Element1, Element2, Element3 }
\* Element listings of at most MaxElements elements with distinct ids.
ElementLists ==
  { Arr(l) : l \in { m \in UNION { [1..n -> ElementKinds] : n \in 0..MaxElements } :
                       \A i, j \in DOMAIN m : i # j => m[i] # m[j] } }
FieldRec == Obj([name |-> Str("v.f"), label |-> Str("F"), type |-> Str("string"),
                 hidden |-> Bool(FALSE)])
Listings == { Arr(<<>>), Arr(<< Obj([id |-> Str("1"), title |-> Str("Revenue")]) >>) }

\* JSON values the upstream answers a successful call of the tool at loc.step.
OkValues(n, step) ==
  CASE n = "get_models" ->
         { Arr(<<>>),
           Arr(<< Obj([name |-> Str("m"), label |-> Str("M"),
                       has_content |-> Bool(TRUE), project_name |-> Str("p")]) >>),
           Obj([message |-> Str("moved")]) }
    [] n = "get_explores" ->
         { Obj([name |-> Str("m")]),
           Obj([name |-> Str("m"), explores |-> Arr(<<FieldRec>>)]) }
    [] n \in {"get_dimensions", "get_measures", "get_filters", "get_parameters"} ->
         { Obj([name |-> Str("e")]),
           Obj([name |-> Str("e"),
                fields |-> Obj([dimensions |-> Arr(<<FieldRec>>),
                                measures |-> Arr(<<FieldRec>>),
                                filters |-> Arr(<<>>)])]) }
    [] n = "run_dashboard" /\ step = "elements" ->
         ElementLists \cup { Obj([message |-> Str("moved")]) }
    [] (n \in {"make_dashboard", "make_look"} /\ step = "me") ->
         { Obj([id |-> Str("1"), personal_folder_id |-> Str("5")]),
           Obj([id |-> Str("1")]) }
    [] (n \in {"query_url"} /\ step = "called")
       \/ (n \in {"add_dashboard_element", "make_look"} /\ step = "createdQuery") ->
         { Obj([id |-> Str("9"), slug |-> Str("s9"), share_url |-> Str("https://x/s9")]) }
    [] n \in {"make_dashboard", "make_look", "add_dashboard_element"} ->
         { Obj([id |-> Str("77"), title |-> Str("T")]) }
    [] n = "dev_mode" ->
         { Obj([workspace_id |-> Str("dev")]), Obj([workspace_id |-> Str("production")]) }
    [] OTHER -> Listings

\* Everything fetch() may settle with for the call awaited at loc.step.
Failures ==
  { Response(st, TextType, RawBody(b)) : st \in ErrStatuses, b \in ErrBodies }
Successes(n, step) ==
  { Response(200, ct, JsonBody(x)) : ct \in {JsonType, Null}, x \in OkValues(n, step) }
  \cup { Response(200, ct, RawBody(txt)) : ct \in {JsonType, TextType, Null},
                                           txt \in RawTexts }

\* ----------------------------------------------------------------- actions
Slots == { "c1" }

VARIABLES
  tools,       \* the catalog served by tools/list
  req,         \* req[s]: the request slot s is handling
  pc,          \* pc[s]: "idle", "await" (inside an upstream call), "done",
               \* or "served" (app.get('/') has answered)
  accessToken, \* accessToken[s]: the handler's local of that name
  loc,         \* loc[s]: executeTool's locals across the await
  calls,       \* calls[s]: the upstream requests issued for req[s], in order
  answers,     \* answers[s]: what those requests settled with, in order
  res,         \* res[s]: the responses sent for req[s], in order
  toolResult,  \* toolResult[s]: the value executeTool returned, if it did
  console      \* console[s]: the lines logged while handling req[s], in order

vars ==
  <<tools, req, pc, accessToken, loc, calls, answers, res, toolResult, console,
    seen>>

Init ==
  /\ tools = [i \in DOMAIN ToolNames |-> Obj(Descriptor(Str(ToolNames[i])))]
  /\ req = [s \in Slots |-> NoRequest]
  /\ pc = [s \in Slots |-> "idle"]
  /\ accessToken = [s \in Slots |-> Null]
  /\ answers = [s \in Slots |-> <<>>]
  /\ loc = [s \in Slots |-> Loc0]
  /\ calls = [s \in Slots |-> <<>>]
  /\ res = [s \in Slots |-> <<>>]
  /\ toolResult = [s \in Slots |-> Undef]
  /\ console = [s \in Slots |-> <<>>]
  /\ seen = {}

\* The effect of a step of the handler that ended with outcome out.
Advance(s, request, token, out) ==
  /\ req' = [req EXCEPT ![s] = request]
  /\ accessToken' = [accessToken EXCEPT ![s] = token]
  /\ IF out.k = "respond"
       THEN /\ pc' = [pc EXCEPT ![s] = "done"]
            /\ res' = [res EXCEPT ![s] = Append(@, [status |-> out.status,
                                                    body |-> out.body])]
            /\ toolResult' = [toolResult EXCEPT ![s] = out.toolResult]
            /\ calls' = calls
            /\ loc' = loc
       ELSE /\ pc' = [pc EXCEPT ![s] = "await"]
            /\ calls' = [calls EXCEPT ![s] =
                 Append(@, Request(token, out.call.method, out.call.path,
                                   out.call.body))]
            /\ loc' = [loc EXCEPT ![s] = out.loc]
            /\ res' = res
            /\ toolResult' = toolResult
  /\ console' = [console EXCEPT ![s] =
       (IF pc[s] = "idle" THEN <<McpLine(request.method, token)>> ELSE @)
         \o (IF out.k = "respond" THEN out.logged ELSE <<LookerApiLine(out.call)>>)]
  /\ tools' = tools

\* app.post('/mcp', handleMcpRequest): a request arrives and is handled up to
\* its response or its first upstream call.
Receive(s) ==
  /\ pc[s] = "idle"
  /\ \E request \in Requests(tools) :
       LET token == ExtractToken(request.authorization) IN
       /\ Advance(s, request, token, handleMcpRequest(request, token, tools))
       /\ answers' = answers
       /\ seen' = seen

\* Variant: a count that does not follow the registry.
HealthCheck_Fixed(catalog) ==
  Respond(200, [status |-> Str("ok"), service |-> Str("looker-oauth-proxy"),
                version |-> Str("2.0.0"), tools_count |-> Num(1)])

HealthCheck(catalog) ==
  Respond(200, [status |-> Str("ok"), service |-> Str("looker-oauth-proxy"),
                version |-> Str("2.0.0"), tools_count |-> Num(Len(catalog))])

\* app.get('/'): the health check, whatever headers the request carries. It
\* reads nothing of the request and logs nothing.
Health(s) ==
  /\ pc[s] = "idle"
  /\ \E h \in AuthHeaders :
       req' = [req EXCEPT ![s] = [NoRequest EXCEPT !.authorization = h]]
  /\ pc' = [pc EXCEPT ![s] = "served"]
  /\ res' = [res EXCEPT ![s] = Append(@, [status |-> HealthCheck(tools).status,
                                          body |-> HealthCheck(tools).body])]
  /\ UNCHANGED <<tools, accessToken, loc, calls, answers, toolResult, console,
                 seen>>

ToolOf(s) == ToStr(Get(req[s].params, "name"))

\* The awaited upstream call is answered with an HTTP response.
UpstreamResponds(s) ==
  /\ pc[s] = "await"
  /\ \E response \in Failures \cup Successes(ToolOf(s), loc[s].step) :
       /\ Advance(s, req[s], accessToken[s],
                  resumeMcpRequest(req[s], accessToken[s], loc[s], response))
       /\ answers' = [answers EXCEPT ![s] = Append(@, response)]
       /\ seen' = seen

\* The awaited upstream call fails at the network level: fetch() rejects.
UpstreamUnreachable(s) ==
  /\ pc[s] = "await"
  /\ Advance(s, req[s], accessToken[s],
             resumeMcpRequest(req[s], accessToken[s], loc[s], NetFailure))
  /\ answers' = [answers EXCEPT ![s] = Append(@, NetFailure)]
  /\ seen' = seen

\* The response was delivered; nothing of the request is kept.
Close(s) ==
  /\ pc[s] \in {"done", "served"}
  /\ pc' = [pc EXCEPT ![s] = "idle"]
  /\ req' = [req EXCEPT ![s] = NoRequest]
  /\ loc' = [loc EXCEPT ![s] = Loc0]
  /\ calls' = [calls EXCEPT ![s] = <<>>]
  /\ answers' = [answers EXCEPT ![s] = <<>>]
  /\ accessToken' = [accessToken EXCEPT ![s] = Null]
  /\ res' = [res EXCEPT ![s] = <<>>]
  /\ toolResult' = [toolResult EXCEPT ![s] = Undef]
  /\ console' = [console EXCEPT ![s] = <<>>]
  /\ tools' = tools
  /\ seen' = seen

Next ==
  \E s \in Slots :
    \/ Receive(s)
    \/ UpstreamResponds(s)
    \/ UpstreamUnreachable(s)
    \/ Health(s)
    \/ Close(s)

Spec == Init /\ [][Next]_vars

\* ---------------------------------------------------- concurrent sessions
\* Two requests in flight at once, interleaving at their upstream calls, from
\* clients holding different tokens, with the history of methods recorded.
SessionSlots == { "c1", "c2" }
SessionHeaders == { Undef, Str("Bearer t1"), Str("Bearer t2") }
SessionMethods == { Str("initialize"), Str("resources/list") }
SessionParams ==
  { Obj([name |-> Str("get_models"), arguments |-> Obj(EmptyObject)]) }
  \cup { Obj([name |-> Str("add_dashboard_element"), arguments |-> Obj(a)])
           : a \in { q \in QueryArgs : "dashboard_id" \in DOMAIN q } }
SessionRequests ==
  { [method |-> m, params |-> Undef, id |-> Num(7), authorization |-> h]
      : m \in SessionMethods, h \in SessionHeaders }
  \cup
  { [method |-> Str("tools/call"), params |-> q, id |-> Num(7), authorization |-> h]
      : q \in SessionParams, h \in SessionHeaders }
SessionAnswers(n, step) ==
  { Response(404, TextType, RawBody("Not found")) }
  \cup { Response(200, JsonType, JsonBody(x)) : x \in OkValues(n, step) }

SessionInit ==
  /\ tools = [i \in DOMAIN ToolNames |-> Obj(Descriptor(Str(ToolNames[i])))]
  /\ req = [s \in SessionSlots |-> NoRequest]
  /\ pc = [s \in SessionSlots |-> "idle"]
  /\ accessToken = [s \in SessionSlots |-> Null]
  /\ answers = [s \in SessionSlots |-> <<>>]
  /\ loc = [s \in SessionSlots |-> Loc0]
  /\ calls = [s \in SessionSlots |-> <<>>]
  /\ res = [s \in SessionSlots |-> <<>>]
  /\ toolResult = [s \in SessionSlots |-> Undef]
  /\ console = [s \in SessionSlots |-> <<>>]
  /\ seen = {}

\* app.post('/mcp', handleMcpRequest), while other requests may be in flight.
SessionReceive(s) ==
  /\ pc[s] = "idle"
  /\ \E request \in SessionRequests :
       LET token == ExtractToken(request.authorization) IN
       /\ Advance(s, request, token, handleMcpRequest(request, token, tools))
       /\ answers' = answers
       /\ seen' = seen \cup { request.method }

\* The awaited upstream call of one of the requests in flight is answered.
SessionUpstreamResponds(s) ==
  /\ pc[s] = "await"
  /\ \E response \in SessionAnswers(ToolOf(s), loc[s].step) :
       /\ Advance(s, req[s], accessToken[s],
                  resumeMcpRequest(req[s], accessToken[s], loc[s], response))
       /\ answers' = [answers EXCEPT ![s] = Append(@, response)]
       /\ seen' = seen

SessionNext ==
  \E s \in SessionSlots :
    \/ SessionReceive(s)
    \/ SessionUpstreamResponds(s)
    \/ UpstreamUnreachable(s)
    \/ Health(s)
    \/ Close(s)

SessionSpec == SessionInit /\ [][SessionNext]_vars

\* --------------------------------------------------------- settling upstream
\* The requests of one client with one credential or none, over every method
\* and every tool, and an upstream whose calls all settle.
LiveHeaders == { Undef, Str("Bearer t1") }
LiveRequests(catalog) ==
  { r \in Requests(catalog) : r.id = Num(7) /\ r.authorization \in LiveHeaders }
LiveAnswers(n, step) ==
  { Response(404, TextType, RawBody("Not found")) }
  \cup { Response(200, JsonType, JsonBody(x)) : x \in OkValues(n, step) }
  \cup { Response(200, TextType, RawBody(txt)) : txt \in RawTexts }

\* app.post('/mcp', handleMcpRequest).
LiveReceive(s) ==
  /\ pc[s] = "idle"
  /\ \E request \in LiveRequests(tools) :
       LET token == ExtractToken(request.authorization) IN
       /\ Advance(s, request, token, handleMcpRequest(request, token, tools))
       /\ answers' = answers
       /\ seen' = seen

\* The awaited upstream call is answered with an HTTP response.
LiveUpstreamResponds(s) ==
  /\ pc[s] = "await"
  /\ \E response \in LiveAnswers(ToolOf(s), loc[s].step) :
       /\ Advance(s, req[s], accessToken[s],
                  resumeMcpRequest(req[s], accessToken[s], loc[s], response))
       /\ answers' = [answers EXCEPT ![s] = Append(@, response)]
       /\ seen' = seen

LiveNext ==
  \E s \in Slots :
    \/ LiveReceive(s)
    \/ LiveUpstreamResponds(s)
    \/ UpstreamUnreachable(s)
    \/ Health(s)
    \/ Close(s)

\* await fetch(...) settles: the awaited upstream call returns or fails.
Settles(s) == LiveUpstreamResponds(s) \/ UpstreamUnreachable(s)

\* Every upstream call eventually returns or fails: weak fairness of Settles,
\* WF_vars(Settles(s)), written out. Settles(s) can take a step exactly when
\* pc[s] = "await" (its guard; the step appends to answers[s]), so that is
\* put for ENABLED <<Settles(s)>>_vars.
LiveSpec ==
  /\ Init /\ [][LiveNext]_vars
  /\ \A s \in Slots : []<>(pc[s] # "await") \/ []<><<Settles(s)>>_vars


\* ================================================================== claims
\* Observations the properties below are stated with.
Done(s) == pc[s] = "done"
\* Slot s holds a request of app.post('/mcp') that was received.
Handling(s) == pc[s] \in {"await", "done"}
Served(s) == pc[s] = "served"
Reply(s) == res[s][1]
IsError(reply) == Has(reply.body, "error") /\ ~Has(reply.body, "result")
IsResult(reply) == Has(reply.body, "result") /\ ~Has(reply.body, "error")
ErrorCode(reply) == Get(reply.body["error"], "code")
ErrorMessage(reply) == Get(reply.body["error"], "message").v
\* The header carries a credential: "Bearer " and at least one more character.
Credentialed(h) ==
  h.t = "string" /\ Len(h.v) > 7 /\ SubSeq(h.v, 1, 7) = "Bearer "
NamedCall(s) == req[s].method = Str("tools/call") /\ req[s].params.t = "object"
CatalogNames == { tools[k].v.name : k \in DOMAIN tools }
\* The upstream answer is a failure of the call: no response or a non-2xx one.
Failed(answer) == answer.k = "net" \/ ~(answer.status \in 200..299)
HttpFailed(answer) == answer.k = "http" /\ ~(answer.status \in 200..299)

\* C1: a request without credential is answered 401 with error code -32600
\* and no result when its method is initialize or tools/call, and 200 with a
\* result when it is tools/list, ping or notifications/initialized.
C1_AuthRequired ==
  \A s \in Slots :
    (Done(s) /\ ~Credentialed(req[s].authorization)) =>
      /\ Len(res[s]) = 1
      /\ req[s].method \in {Str("initialize"), Str("tools/call")} =>
           /\ Reply(s).status = 401
           /\ IsError(Reply(s))
           /\ ErrorCode(Reply(s)) = Num(-32600)
      /\ req[s].method \in {Str("tools/list"), Str("ping"),
                            Str("notifications/initialized")} =>
           /\ Reply(s).status = 200
           /\ IsResult(Reply(s))

C1_Witness ==
  \E s \in Slots :
    /\ Done(s)
    /\ req[s].authorization = Undef
    /\ req[s].method = Str("tools/call")
    /\ Reply(s).status = 401

\* C2: the extracted credential is absent (falsy) for a missing header, a
\* header not starting with the exact prefix "Bearer ", and the bare prefix;
\* otherwise it is the header text after the 7-character prefix, unmodified.
C2_Extraction ==
  \A s \in Slots :
    Handling(s) =>
      LET h == req[s].authorization IN
      IF h.t = "undefined" THEN ~Truthy(accessToken[s])
      ELSE IF Len(h.v) < 7 \/ SubSeq(h.v, 1, 7) # "Bearer " THEN ~Truthy(accessToken[s])
      ELSE IF Len(h.v) = 7 THEN ~Truthy(accessToken[s])
      ELSE accessToken[s] = Str(SubSeq(h.v, 8, Len(h.v)))

C2_Witness ==
  \E s \in Slots :
    /\ Done(s)
    /\ req[s].authorization = Str("Bearer  t1")
    /\ accessToken[s] = Str(" t1")

\* C3: the catalog's names are unique; a tools/call naming a catalog tool
\* never ends in the unknown-tool branch; a tools/call the executor
\* recognises names a tool with exactly one descriptor.
UnknownToolReply(s) ==
  /\ Done(s)
  /\ IsError(Reply(s))
  /\ ErrorMessage(Reply(s)) = "Unknown tool: " \o ToStr(Get(req[s].params, "name"))
Recognised(s) == pc[s] = "await" \/ (Done(s) /\ ~UnknownToolReply(s))
C3_RegistryExecutor ==
  /\ \A i, j \in DOMAIN tools : i # j => tools[i].v.name # tools[j].v.name
  /\ \A s \in Slots :
       (NamedCall(s) /\ Credentialed(req[s].authorization)) =>
         /\ Get(req[s].params, "name") \in CatalogNames => ~UnknownToolReply(s)
         /\ Recognised(s) =>
              Cardinality({ k \in DOMAIN tools :
                              tools[k].v.name = Get(req[s].params, "name") }) = 1

C3_Witness ==
  \E s \in Slots :
    /\ NamedCall(s) /\ Credentialed(req[s].authorization)
    /\ Get(req[s].params, "name") = Str("conversational_analytics")
    /\ Done(s)
    /\ Len(calls[s]) = 1

\* C4: in run_dashboard, once the listing gave the elements, every element
\* that references a query gets one entry, with `error` when its query run
\* failed and `data` when it succeeded, and the call returns a result.
ElementsListed(s) ==
  /\ NamedCall(s) /\ Credentialed(req[s].authorization)
  /\ Get(req[s].params, "name") = Str("run_dashboard")
  /\ Len(answers[s]) >= 1
  /\ ~lookerApiCall(answers[s][1]).thrown
  /\ lookerApiCall(answers[s][1]).v.t = "array"
QueryElements(s) ==
  SelectSeq(lookerApiCall(answers[s][1]).v.v, LAMBDA e : Has(e.v, "query_id"))
C4_PartialFailure ==
  \A s \in Slots :
    (Done(s) /\ ElementsListed(s)) =>
      /\ Reply(s).status = 200
      /\ IsResult(Reply(s))
      /\ toolResult[s].t = "array"
      /\ Len(toolResult[s].v) = Len(QueryElements(s))
      /\ Len(answers[s]) = 1 + Len(QueryElements(s))
      /\ \A k \in 1..Len(QueryElements(s)) :
           LET entry == toolResult[s].v[k].v IN
           /\ entry["element_id"] = QueryElements(s)[k].v["id"]
           /\ IF lookerApiCall(answers[s][k + 1]).thrown
                THEN Has(entry, "error") /\ ~Has(entry, "data")
                ELSE Has(entry, "data") /\ ~Has(entry, "error")

C4_Witness ==
  \E s \in Slots :
    /\ Done(s) /\ ElementsListed(s)
    /\ Len(QueryElements(s)) = 2
    /\ Failed(answers[s][2])
    /\ ~lookerApiCall(answers[s][3]).thrown
    /\ Len(toolResult[s].v) = 2
    /\ Has(toolResult[s].v[1].v, "error")
    /\ Has(toolResult[s].v[2].v, "data")

\* C5: a tools/call with credential of health_pulse, health_analyze or
\* health_vacuum returns a JSON-RPC result with HTTP 200, whatever the
\* upstream answers.
DiagnosticCall(s) ==
  /\ NamedCall(s) /\ Credentialed(req[s].authorization)
  /\ Get(req[s].params, "name") \in
       {Str("health_pulse"), Str("health_analyze"), Str("health_vacuum")}
\* Every upstream answer so far is a failure or a success that parses.
WellFormedAnswers(s) ==
  \A k \in DOMAIN answers[s] :
    Failed(answers[s][k]) \/ ~lookerApiCall(answers[s][k]).thrown
C5_DiagnosticsNeverFail ==
  \A s \in Slots :
    (Done(s) /\ DiagnosticCall(s) /\ WellFormedAnswers(s)) =>
      Reply(s).status = 200 /\ IsResult(Reply(s))

\* C6: in health_pulse and health_vacuum every sub-call is issued whatever
\* the others did; a successful sub-call's data is in its section of the
\* result and a failed one has an `error` inside its own section.
SubCalls(s) ==
  IF Get(req[s].params, "name") = Str("health_pulse")
    THEN <<"connections", "running_queries">>
  ELSE IF Truthy(ArgsOf(req[s].params)["project"])
    THEN <<"content_usage", "project_files">>
  ELSE <<"content_usage">>
C6_SubCallsIndependent ==
  \A s \in Slots :
    (Done(s) /\ DiagnosticCall(s) /\ WellFormedAnswers(s)
       /\ Get(req[s].params, "name") # Str("health_analyze")) =>
      /\ Len(calls[s]) = Len(SubCalls(s))
      /\ \A k \in 1..Len(SubCalls(s)) :
           LET section == Get(toolResult[s], SubCalls(s)[k]) IN
           IF lookerApiCall(answers[s][k]).thrown
             THEN Get(section, "error") # Undef
             ELSE section = lookerApiCall(answers[s][k]).v

\* C7 (as stated): make_dashboard and make_look each look up the current
\* user, then create a query, then create the artifact referencing that
\* query and the user's personal folder; the result has the artifact's id and
\* the URL base + path + id.
ToolCall(s, n) ==
  /\ NamedCall(s) /\ Credentialed(req[s].authorization)
  /\ Get(req[s].params, "name") = Str(n)
Answered(s, k) == lookerApiCall(answers[s][k]).v
Issued(s, k, method, path) ==
  calls[s][k].method = method /\ calls[s][k].url = LOOKER_BASE_URL \o path
\* The order user lookup, query creation, artifact creation on the calls
\* issued so far, with the references the artifact's request carries.
UserQueryArtifact(s, path) ==
  /\ Len(calls[s]) <= 3
  /\ Len(calls[s]) >= 1 => Issued(s, 1, "GET", "/api/4.0/user")
  /\ Len(calls[s]) >= 2 => Issued(s, 2, "POST", "/api/4.0/queries")
  /\ Len(calls[s]) >= 3 =>
       /\ Issued(s, 3, "POST", path)
       /\ Get(calls[s][3].body, "query_id") = Get(Answered(s, 2), "id")
       /\ Get(calls[s][3].body, "folder_id") = Get(Answered(s, 1), "personal_folder_id")
ArtifactResult(s, urlPath) ==
  (Done(s) /\ IsResult(Reply(s))) =>
    /\ Get(toolResult[s], "id") = Get(Answered(s, Len(answers[s])), "id")
    /\ Get(toolResult[s], "url") =
         Str(LOOKER_BASE_URL \o urlPath \o ToStr(Get(toolResult[s], "id")))
C7_Original ==
  \A s \in Slots :
    /\ ToolCall(s, "make_look") =>
         /\ UserQueryArtifact(s, "/api/4.0/looks")
         /\ (Done(s) /\ IsResult(Reply(s))) => Len(calls[s]) = 3
         /\ ArtifactResult(s, "/looks/")
    /\ ToolCall(s, "make_dashboard") =>
         /\ UserQueryArtifact(s, "/api/4.0/dashboards")
         /\ (Done(s) /\ IsResult(Reply(s))) => Len(calls[s]) = 3
         /\ ArtifactResult(s, "/dashboards/")

\* C7 (amended): make_look looks up the current user, creates a query, then
\* creates the look referencing that query and the personal folder;
\* make_dashboard looks up the current user and then creates the dashboard
\* referencing the personal folder, without creating a query; both results
\* have the artifact's id and the URL base + path + id.
C7_CreateArtifact ==
  \A s \in Slots :
    /\ ToolCall(s, "make_look") =>
         /\ UserQueryArtifact(s, "/api/4.0/looks")
         /\ (Done(s) /\ IsResult(Reply(s))) => Len(calls[s]) = 3
         /\ ArtifactResult(s, "/looks/")
    /\ ToolCall(s, "make_dashboard") =>
         /\ Len(calls[s]) <= 2
         /\ Len(calls[s]) >= 1 => Issued(s, 1, "GET", "/api/4.0/user")
         /\ Len(calls[s]) >= 2 =>
              /\ Issued(s, 2, "POST", "/api/4.0/dashboards")
              /\ Get(calls[s][2].body, "folder_id") =
                   Get(Answered(s, 1), "personal_folder_id")
         /\ (Done(s) /\ IsResult(Reply(s))) => Len(calls[s]) = 2
         /\ ArtifactResult(s, "/dashboards/")

C7_Witness ==
  \E s \in Slots :
    /\ ToolCall(s, "make_look")
    /\ Done(s) /\ IsResult(Reply(s))
    /\ Len(calls[s]) = 3
    /\ Get(calls[s][3].body, "query_id") = Str("9")
    /\ Get(calls[s][3].body, "folder_id") = Str("5")
    /\ Get(toolResult[s], "url") = Str(LOOKER_BASE_URL \o "/looks/77")

\* C8: when a tools/call fails with a propagated upstream failure, the HTTP
\* status is 401 if the upstream status was 401 and 500 for every other
\* upstream status, whatever the upstream body says.
Propagated(s) ==
  /\ Done(s) /\ NamedCall(s) /\ Credentialed(req[s].authorization)
  /\ answers[s] # <<>>
  /\ HttpFailed(answers[s][Len(answers[s])])
  /\ IsError(Reply(s))
C8_StatusByUpstreamStatus ==
  \A s \in Slots :
    Propagated(s) =>
      Reply(s).status =
        (IF answers[s][Len(answers[s])].status = 401 THEN 401 ELSE 500)

\* C9: a tools/call with credential that names a tool absent from the
\* registry is answered with error code -32603 and HTTP 500 and issues no
\* upstream call.
C9_UnknownTool ==
  \A s \in Slots :
    (Done(s) /\ NamedCall(s) /\ Credentialed(req[s].authorization)
       /\ Get(req[s].params, "name") \notin CatalogNames) =>
      /\ IsError(Reply(s))
      /\ ErrorCode(Reply(s)) = Num(-32603)
      /\ Reply(s).status = 500
      /\ calls[s] = <<>>

\* C10 (as stated): when the upstream call of a tool that makes one call
\* returns a non-success status with some body text, the JSON-RPC error
\* message contains that status and that text.
SingleStepTools ==
  { Str(ToolNames[k]) : k \in DOMAIN ToolNames }
  \ { Str("run_dashboard"), Str("make_dashboard"), Str("add_dashboard_element"),
      Str("make_look"), Str("health_pulse"), Str("health_analyze"),
      Str("health_vacuum") }
SingleStepFailure(s) ==
  /\ Done(s) /\ NamedCall(s) /\ Credentialed(req[s].authorization)
  /\ Get(req[s].params, "name") \in SingleStepTools
  /\ Len(answers[s]) = 1
  /\ HttpFailed(answers[s][1])
Diagnosable(s, message) ==
  /\ Includes(message, ToString(answers[s][1].status))
  /\ Includes(message, answers[s][1].body.text)
C10_Original ==
  \A s \in Slots :
    SingleStepFailure(s) =>
      IsError(Reply(s)) /\ Diagnosable(s, ErrorMessage(Reply(s)))

\* C10 (amended): that holds for every tool of one call except
\* conversational_analytics, which returns a result whose `details` field
\* contains the status and the text.
C10_ErrorMessage ==
  \A s \in Slots :
    SingleStepFailure(s) =>
      IF Get(req[s].params, "name") = Str("conversational_analytics")
        THEN /\ IsResult(Reply(s))
             /\ Diagnosable(s, Get(toolResult[s], "details").v)
        ELSE /\ IsError(Reply(s))
             /\ Diagnosable(s, ErrorMessage(Reply(s)))

C10_Witness ==
  \E s \in Slots :
    /\ SingleStepFailure(s)
    /\ Get(req[s].params, "name") = Str("get_models")
    /\ answers[s][1].status = 404
    /\ calls[s][1].url = LOOKER_BASE_URL \o "/api/4.0/lookml_models"
    /\ ErrorMessage(Reply(s)) = "Looker API error 404: Not found"

\* ------------------------------------------------------------------- C11
ImplementedMethods ==
  { Str("initialize"), Str("notifications/initialized"), Str("ping"),
    Str("tools/list"), Str("tools/call") }
UnknownMethod(s) == Handling(s) /\ req[s].method \notin ImplementedMethods
Executing(s) ==
  /\ Handling(s)
  /\ req[s].method = Str("tools/call")
  /\ Credentialed(req[s].authorization)

\* What differs between the states before and after unknown method is answered
\* on slot s: nothing but the request-scoped record of that request.
OnlyAnswered(s) ==
  /\ tools' = tools
  /\ calls' = calls
  /\ answers' = answers
  /\ toolResult' = toolResult
  /\ accessToken'[s] = ExtractToken(req'[s].authorization)
  /\ \A o \in SessionSlots \ {s} :
       /\ req'[o] = req[o] /\ pc'[o] = pc[o] /\ res'[o] = res[o]
       /\ accessToken'[o] = accessToken[o] /\ loc'[o] = loc[o]

\* C11: a method outside the five implemented ones is answered with HTTP 400
\* and JSON-RPC error -32601, with or without a credential and whatever was
\* received before; answering it issues nothing upstream and changes nothing
\* but that request's own record, and requests handled once it has been seen
\* are served as usual: initialize succeeds with a credential and gets the auth
\* error without one, tools/call with a credential runs its tool.
C11_MethodNotFound ==
  /\ [](\A s \in SessionSlots :
         /\ UnknownMethod(s) =>
              /\ Done(s) /\ Len(res[s]) = 1 /\ calls[s] = <<>>
              /\ Reply(s).status = 400
              /\ IsError(Reply(s))
              /\ ErrorCode(Reply(s)) = Num(-32601)
         /\ (Str("resources/list") \in seen /\ Done(s)
               /\ req[s].method = Str("initialize")) =>
              IF Credentialed(req[s].authorization)
                THEN Reply(s).status = 200 /\ IsResult(Reply(s))
                ELSE Reply(s).status = 401 /\ IsError(Reply(s))
         /\ (Str("resources/list") \in seen /\ Executing(s)) =>
              calls[s] # <<>>)
  /\ [][\A s \in SessionSlots :
          (pc[s] = "idle" /\ UnknownMethod(s)') => OnlyAnswered(s)]_vars

\* An unknown method sent with a credential was answered after other requests
\* had been received, and a tool call received since has returned its result.
C11_Witness ==
  /\ UnknownMethod("c1") /\ Done("c1")
  /\ Credentialed(req["c1"].authorization)
  /\ Str("initialize") \in seen
  /\ Executing("c2") /\ Done("c2") /\ IsResult(Reply("c2"))

\* ------------------------------------------------------------------- C12
\* A call of a registered tool with credential has ended after an upstream call
\* of it failed.
FailedStep(s) ==
  /\ Done(s) /\ NamedCall(s) /\ Credentialed(req[s].authorization)
  /\ Get(req[s].params, "name") \in { Str(ToolNames[k]) : k \in DOMAIN ToolNames }
  /\ \E k \in DOMAIN answers[s] : Failed(answers[s][k])
\* The failure reached the client as a JSON-RPC error and no tool output.
FailsWhole(s) == IsError(Reply(s)) /\ toolResult[s] = Undef
DiagnosticTools == { Str("health_pulse"), Str("health_analyze"), Str("health_vacuum") }
\* Outside the tools of Swallowing a failed step fails the call, and so does
\* the failure of run_dashboard's listing of the elements.
ConfinedTo(swallowing) ==
  \A s \in Slots :
    FailedStep(s) =>
      /\ Get(req[s].params, "name") \notin swallowing \cup {Str("run_dashboard")} =>
           FailsWhole(s)
      /\ (Get(req[s].params, "name") = Str("run_dashboard") /\ Failed(answers[s][1])) =>
           FailsWhole(s)

\* C12 (as claimed): upstream failures are turned into data only by
\* run_dashboard's element runs and the three diagnostic tools; for every other
\* tool a failed upstream call on any step gives a JSON-RPC error and no result.
C12_Original == ConfinedTo(DiagnosticTools)

\* C12 (amended): the same with conversational_analytics among the tools that
\* turn the failure into data.
C12_Confined == ConfinedTo(DiagnosticTools \cup {Str("conversational_analytics")})

\* make_look failed on its last step, after two steps that succeeded.
C12_Witness ==
  \E s \in Slots :
    /\ FailedStep(s) /\ FailsWhole(s)
    /\ Get(req[s].params, "name") = Str("make_look")
    /\ Len(answers[s]) = 3 /\ Failed(answers[s][3])

\* ------------------------------------------------------------------- C13
\* C13: every response, success or error of any kind, carries the id of its
\* request unchanged, and has no id when the request had none.
C13_IdEchoed ==
  \A s \in Slots :
    \A k \in DOMAIN res[s] :
      IF req[s].id = Undef
        THEN ~Has(res[s][k].body, "id")
        ELSE Has(res[s][k].body, "id") /\ res[s][k].body["id"] = req[s].id

\* A tool call with a string id failed upstream and was answered by the catch
\* block.
C13_Witness ==
  \E s \in Slots :
    /\ Propagated(s)
    /\ req[s].id = Str("a")
    /\ Reply(s).body["id"] = Str("a")
    /\ ErrorCode(Reply(s)) = Num(-32603)

\* ------------------------------------------------------------------- C14
\* C14: every response envelope has exactly one of `result` and `error` and
\* nothing else beside `jsonrpc` and `id`; an error is a code and a message,
\* and no output of the tool goes with it.
C14_ResultXorError ==
  \A s \in Slots :
    \A k \in DOMAIN res[s] :
      LET body == res[s][k].body IN
      Handling(s) =>
        /\ Has(body, "result") # Has(body, "error")
        /\ DOMAIN body \subseteq {"jsonrpc", "id", "result", "error"}
        /\ Has(body, "error") =>
             /\ DOMAIN body["error"].v = {"code", "message"}
             /\ toolResult[s] = Undef

\* add_dashboard_element failed on its second step, after the query had been
\* created: the response is the error alone.
C14_Witness ==
  \E s \in Slots :
    /\ Done(s) /\ ToolCall(s, "add_dashboard_element")
    /\ Len(answers[s]) = 2
    /\ ~lookerApiCall(answers[s][1]).thrown
    /\ Get(Answered(s, 1), "id").t = "string"
    /\ Failed(answers[s][2])
    /\ IsError(Reply(s))
    /\ DOMAIN Reply(s).body \subseteq {"jsonrpc", "id", "error"}

\* ------------------------------------------------------------------- C15
\* What a client does with the text: JSON.parse, reading the value that starts
\* at position i of text and giving it with the position after it.
CharAt(text, i) == SubSeq(text, i, i)
\* The first position from i on that holds none of the characters of skipped
\* (the position after the text when there is none).
Scan(text, i, skipped) ==
  CHOOSE j \in i..(Len(text) + 1) :
    /\ j = Len(text) + 1 \/ CharAt(text, j) \notin skipped
    /\ \A k \in i..(j - 1) : CharAt(text, k) \in skipped
SkipSpace(text, i) == Scan(text, i, {" ", "\n"})
Unescape(c) == IF c = "n" THEN "\n" ELSE c
\* The number of backslashes that stand right before position p, from lo on.
RunBefore(text, lo, p) ==
  CHOOSE d \in 0..(p - lo) :
    /\ \A k \in (p - d)..(p - 1) : CharAt(text, k) = "\\"
    /\ d = p - lo \/ CharAt(text, p - d - 1) # "\\"
\* The character at p of the literal that starts at lo is written after an
\* escaping backslash.
Escaped(text, lo, p) == RunBefore(text, lo, p) % 2 = 1
ClosesLiteral(text, lo, p) == CharAt(text, p) = "\"" /\ ~Escaped(text, lo, p)
ClosingQuote(text, lo) ==
  CHOOSE j \in lo..Len(text) :
    /\ ClosesLiteral(text, lo, j)
    /\ \A k \in lo..(j - 1) : ~ClosesLiteral(text, lo, k)
\* The characters that positions a..b of the literal starting at lo stand for.
RECURSIVE Decode(_, _, _, _)
Decode(text, lo, a, b) ==
  IF a > b THEN ""
  ELSE IF a = b
    THEN (IF Escaped(text, lo, a) THEN Unescape(CharAt(text, a))
          ELSE IF CharAt(text, a) = "\\" THEN ""
          ELSE CharAt(text, a))
  ELSE Decode(text, lo, a, (a + b) \div 2) \o Decode(text, lo, ((a + b) \div 2) + 1, b)
\* The characters of a string literal from i on, up to its closing quote.
ParseChars(text, i) ==
  [v |-> Decode(text, i, i, ClosingQuote(text, i) - 1),
   at |-> ClosingQuote(text, i) + 1]
DigitChars == { ToString(d) : d \in 0..9 }
DigitOf(c) == CHOOSE d \in 0..9 : ToString(d) = c
RECURSIVE ParseDigits(_, _, _)
ParseDigits(text, i, n) ==
  IF i <= Len(text) /\ CharAt(text, i) \in DigitChars
    THEN ParseDigits(text, i + 1, 10 * n + DigitOf(CharAt(text, i)))
    ELSE [v |-> n, at |-> i]
RECURSIVE ParseValue(_, _)
RECURSIVE ParseMembers(_, _, _)
RECURSIVE ParseElements(_, _, _)
ParseValue(text, from) ==
  LET i == SkipSpace(text, from)
      c == CharAt(text, i)
  IN CASE c = "\"" -> LET r == ParseChars(text, i + 1)
                      IN [v |-> Str(r.v), at |-> r.at]
       [] c = "{" -> ParseMembers(text, SkipSpace(text, i + 1), EmptyObject)
       [] c = "[" -> ParseElements(text, SkipSpace(text, i + 1), <<>>)
       [] c = "t" -> [v |-> Bool(TRUE), at |-> i + 4]
       [] c = "f" -> [v |-> Bool(FALSE), at |-> i + 5]
       [] c = "n" -> [v |-> Null, at |-> i + 4]
       [] c = "-" -> LET r == ParseDigits(text, i + 1, 0)
                     IN [v |-> Num(0 - r.v), at |-> r.at]
       [] OTHER -> LET r == ParseDigits(text, i, 0)
                   IN [v |-> Num(r.v), at |-> r.at]
ParseMembers(text, i, o) ==
  IF CharAt(text, i) = "}" THEN [v |-> Obj(o), at |-> i + 1]
  ELSE IF CharAt(text, i) = "," THEN ParseMembers(text, SkipSpace(text, i + 1), o)
  ELSE LET key == ParseChars(text, i + 1)
           val == ParseValue(text, SkipSpace(text, key.at) + 1)
       IN ParseMembers(text, SkipSpace(text, val.at), Put(o, key.v, val.v))
ParseElements(text, i, items) ==
  IF CharAt(text, i) = "]" THEN [v |-> Arr(items), at |-> i + 1]
  ELSE IF CharAt(text, i) = "," THEN ParseElements(text, SkipSpace(text, i + 1), items)
  ELSE LET val == ParseValue(text, i)
       IN ParseElements(text, SkipSpace(text, val.at), Append(items, val.v))
\* The whole text is one JSON value.
WellFormedJson(text) == SkipSpace(text, ParseValue(text, 1).at) = Len(text) + 1
JSONParse(text) == ParseValue(text, 1).v

\* The value as JSON carries it: JSON has no undefined, a property with that
\* value is not part of the object and an array item with it is null.
RECURSIVE JsonValue(_)
JsonValue(x) ==
  CASE x.t = "object" ->
         Obj([k \in { q \in DOMAIN x.v : x.v[q].t # "undefined" } |-> JsonValue(x.v[k])])
    [] x.t = "array" ->
         Arr([i \in DOMAIN x.v |->
                IF x.v[i].t = "undefined" THEN Null ELSE JsonValue(x.v[i])])
    [] OTHER -> x

ToolReturned(s) ==
  /\ Done(s) /\ NamedCall(s) /\ Credentialed(req[s].authorization)
  /\ IsResult(Reply(s))

\* C15: the result of a successful tools/call is {content: [block]} with one
\* block {type: "text", text}, where text is a string holding one JSON value,
\* and parsing it gives the value the executor returned, be it an object, an
\* array or a string of raw upstream text.
C15_TextRoundTrip ==
  \A s \in Slots :
    ToolReturned(s) =>
      LET result == Reply(s).body["result"] IN
      /\ result.t = "object" /\ DOMAIN result.v = {"content"}
      /\ result.v["content"].t = "array" /\ Len(result.v["content"].v) = 1
      /\ LET block == result.v["content"].v[1] IN
         /\ block.t = "object" /\ DOMAIN block.v = {"type", "text"}
         /\ block.v["type"] = Str("text")
         /\ block.v["text"].t = "string"
         /\ WellFormedJson(block.v["text"].v)
         /\ JSONParse(block.v["text"].v) = JsonValue(toolResult[s])

\* run_sql-like raw text with quotes, a backslash and a line break came back
\* from upstream and was returned by a tool as a string.
C15_Witness ==
  \E s \in Slots :
    /\ ToolReturned(s)
    /\ toolResult[s].t = "string"
    /\ Includes(toolResult[s].v, "\"") /\ Includes(toolResult[s].v, "\n")
    /\ Includes(toolResult[s].v, "\\")

\* ------------------------------------------------------------------- C16
QueryTools ==
  { "query", "query_sql", "query_url", "add_dashboard_element", "make_look" }
\* The position of the request that carries the query among the tool's calls.
QueryStep(n) == IF n = "make_look" THEN 2 ELSE 1
QuerySent(s) ==
  /\ NamedCall(s) /\ Credentialed(req[s].authorization)
  /\ \E n \in QueryTools :
       ToolCall(s, n) /\ Len(calls[s]) >= QueryStep(n)
QueryOf(s) == calls[s][QueryStep(ToolOf(s))].body
Given(s, k) == Get(Get(req[s].params, "arguments"), k)
\* The decimal numeral of a natural number.
DigitText == <<"0", "1", "2", "3", "4", "5", "6", "7", "8", "9">>
RECURSIVE Decimal(_)
Decimal(n) ==
  IF n < 10 THEN DigitText[n + 1]
  ELSE Decimal(n \div 10) \o DigitText[(n % 10) + 1]

\* C16: the query that query, query_sql, query_url, add_dashboard_element and
\* make_look send upstream has `limit` as a string, "500" when the argument is
\* omitted and the decimal numeral of the number when it is given ("0" for 0),
\* `filters` as given or the empty mapping, `sorts` and `pivots` as given or
\* the empty sequence.
C16_QueryDefaults ==
  \A s \in Slots :
    QuerySent(s) =>
      /\ QueryOf(s).t = "object"
      /\ Get(QueryOf(s), "limit") =
           (IF Given(s, "limit").t = "number"
              THEN Str(Decimal(Given(s, "limit").v)) ELSE Str("500"))
      /\ Get(QueryOf(s), "filters") =
           (IF Given(s, "filters").t = "undefined"
              THEN Obj(EmptyObject) ELSE Given(s, "filters"))
      /\ \A k \in {"sorts", "pivots"} :
           Get(QueryOf(s), k) =
             (IF Given(s, k).t = "undefined" THEN Arr(<<>>) ELSE Given(s, k))

\* make_look was called with limit 0 and no filters, sorts or pivots, and its
\* query went out with limit "0".
C16_Witness ==
  \E s \in Slots :
    /\ QuerySent(s) /\ ToolCall(s, "make_look")
    /\ Given(s, "limit") = Num(0)
    /\ Given(s, "filters") = Undef
    /\ Get(QueryOf(s), "limit") = Str("0")
    /\ Get(QueryOf(s), "sorts") = Arr(<<>>)

\* ------------------------------------------------------------------- C18
\* C18: nothing is retried. The upstream requests of one tool call are all
\* different, each has settled at most once and all but the awaited one have
\* settled; a tool of one step has issued exactly one request when its call
\* ends, also when that request failed.
C18_NoRetry ==
  \A s \in Slots :
    /\ \A i, j \in DOMAIN calls[s] : i # j => calls[s][i] # calls[s][j]
    /\ Len(calls[s]) = Len(answers[s]) + (IF pc[s] = "await" THEN 1 ELSE 0)
    /\ (Done(s) /\ NamedCall(s) /\ Credentialed(req[s].authorization)
          /\ Get(req[s].params, "name") \in SingleStepTools) =>
         Len(calls[s]) = 1

\* get_projects ended after its one request was refused with status 500.
C18_Witness ==
  \E s \in Slots :
    /\ SingleStepFailure(s)
    /\ ToolCall(s, "get_projects")
    /\ answers[s][1].status = 500
    /\ Len(calls[s]) = 1
    /\ IsError(Reply(s))

\* ------------------------------------------------------------------- C20
CreationPath(n) ==
  IF n = "make_look" THEN "/api/4.0/looks" ELSE "/api/4.0/dashboard_elements"
\* The upstream call k of the tool call on s settled with a value.
Succeeded(s, k) == ~lookerApiCall(answers[s][k]).thrown

\* C20: in add_dashboard_element and make_look the creation request follows
\* the query-creation request, is issued only when that one succeeded and has
\* as query_id the id it returned; a step that fails is the last one issued
\* and the call ends in an error without result.
C20_CreateAfterQuery ==
  \A s \in Slots :
    \A n \in {"add_dashboard_element", "make_look"} :
      ToolCall(s, n) =>
        LET q == QueryStep(n) IN
        /\ Len(calls[s]) <= q + 1
        /\ Len(calls[s]) >= q => Issued(s, q, "POST", "/api/4.0/queries")
        /\ Len(calls[s]) >= q + 1 =>
             /\ Issued(s, q + 1, "POST", CreationPath(n))
             /\ \A k \in 1..q : Succeeded(s, k)
             /\ Get(calls[s][q + 1].body, "query_id") = Get(Answered(s, q), "id")
        /\ \A k \in DOMAIN answers[s] :
             ~Succeeded(s, k) =>
               Len(calls[s]) = k /\ Done(s) /\ FailsWhole(s)

\* add_dashboard_element created its element with the id of the query it had
\* just created.
C20_Witness ==
  \E s \in Slots :
    /\ ToolCall(s, "add_dashboard_element") /\ Done(s) /\ IsResult(Reply(s))
    /\ Get(Answered(s, 1), "id").t = "string"
    /\ Get(calls[s][2].body, "query_id") = Get(Answered(s, 1), "id")
    /\ Get(toolResult[s], "query_id") = Get(Answered(s, 1), "id")

\* ------------------------------------------------------------------- C17
\* The requests in flight hold different credentials.
DifferentTokens(s, o) ==
  /\ s # o /\ Handling(s) /\ Handling(o)
  /\ Credentialed(req[s].authorization) /\ Credentialed(req[o].authorization)
  /\ req[s].authorization # req[o].authorization

\* C17: however concurrent requests interleave, every upstream call has as its
\* Authorization the credential of the request it was issued for, never that
\* of another request in flight, and a token is held only for a request in
\* flight, whose token it is: none is left when the request has been answered
\* and closed.
C17_TokenIsolation ==
  \A s \in SessionSlots :
    /\ \A k \in DOMAIN calls[s] :
         /\ Credentialed(req[s].authorization)
         /\ calls[s][k].authorization = req[s].authorization.v
         /\ \A o \in SessionSlots :
              DifferentTokens(s, o) =>
                calls[s][k].authorization # req[o].authorization.v
    /\ pc[s] = "idle" => accessToken[s] = Null /\ calls[s] = <<>>
    /\ Truthy(accessToken[s]) =>
         /\ Handling(s)
         /\ "Bearer " \o accessToken[s].v = req[s].authorization.v

\* Two tool calls with different tokens interleave: the first is at its second
\* upstream call while the second awaits its first, each with its own token.
C17_Witness ==
  /\ DifferentTokens("c1", "c2")
  /\ pc["c1"] = "await" /\ pc["c2"] = "await"
  /\ Len(calls["c1"]) = 2 /\ Len(calls["c2"]) = 1
  /\ calls["c1"][2].authorization = "Bearer t1"
  /\ calls["c2"][1].authorization = "Bearer t2"

\* ------------------------------------------------------------------- C19
\* Two requests handled by the server are the same request and have had the
\* same upstream answers.
SameRequest(s, o) ==
  /\ s # o /\ Handling(s) /\ Handling(o)
  /\ req[s] = req[o]
  /\ answers[s] = answers[o]

\* C19: dispatch keeps no session. A tools/call with a credential runs its
\* tool also when no initialize has been received, and what the server does for
\* a request (the upstream calls, the response, the tool's value) is fixed by
\* the request and its upstream answers: two handlings of the same request
\* with the same answers agree, whatever was handled before or meanwhile.
C19_Stateless ==
  \A s \in SessionSlots :
    /\ (Executing(s) /\ Str("initialize") \notin seen) => calls[s] # <<>>
    /\ \A o \in SessionSlots :
         SameRequest(s, o) =>
           /\ pc[s] = pc[o]
           /\ calls[s] = calls[o]
           /\ res[s] = res[o]
           /\ toolResult[s] = toolResult[o]

\* The same tool call was handled twice and returned the same result, in a
\* history that holds an unknown method as well and no initialize.
C19_Witness ==
  /\ SameRequest("c1", "c2")
  /\ Executing("c1") /\ Done("c1") /\ IsResult(Reply("c1"))
  /\ Done("c2") /\ Reply("c2") = Reply("c1")
  /\ seen = { Str("tools/call"), Str("resources/list") }

\* ------------------------------------------------------------------- C21
Listed(s) == Handling(s) /\ req[s].method = Str("tools/list")
\* The names of the descriptors a tools/list response carries, in its order.
ListedNames(s) ==
  LET listing == Get(Reply(s).body["result"], "tools").v
  IN [i \in DOMAIN listing |-> Get(listing[i], "name")]

\* C21: tools/list answers 200 with the whole registry, each descriptor once
\* and in the order of the source's array, with or without a credential, and
\* no step of any request changes the registry.
C21_ToolsList ==
  /\ [](\A s \in Slots :
         Listed(s) =>
           /\ Done(s) /\ Reply(s).status = 200 /\ IsResult(Reply(s))
           /\ ListedNames(s) = [i \in DOMAIN ToolNames |-> Str(ToolNames[i])]
           /\ \A i, j \in DOMAIN ListedNames(s) :
                i # j => ListedNames(s)[i] # ListedNames(s)[j]
           /\ Get(Reply(s).body["result"], "tools").v = tools)
  /\ [][tools' = tools]_vars

\* A tools/list sent without credential was answered with the 33 descriptors,
\* get_models first and conversational_analytics last.
C21_Witness ==
  \E s \in Slots :
    /\ Listed(s) /\ Done(s)
    /\ ~Credentialed(req[s].authorization)
    /\ Len(ListedNames(s)) = 33
    /\ ListedNames(s)[1] = Str("get_models")
    /\ ListedNames(s)[33] = Str("conversational_analytics")

\* ------------------------------------------------------------------- C22
IsJsonType(ctype) == ctype.t = "string" /\ Includes(ctype.v, "application/json")
\* What the Upstream Client is to give for a successful answer: the value the
\* body encodes when the content-type is JSON, else a string that is the body
\* as sent (for a body that is JSON: a text that still parses to its value).
ClientGives(answer, given) ==
  IF IsJsonType(answer.ctype)
    THEN answer.body.enc = "json" => given = answer.body.value
    ELSE /\ given.t = "string"
         /\ answer.body.enc = "raw" => given.v = answer.body.text
         /\ answer.body.enc = "json" =>
              /\ WellFormedJson(given.v)
              /\ JSONParse(given.v) = answer.body.value
\* Tools that return what their one upstream call gave.
PassThrough ==
  { "query", "query_sql", "get_dashboards", "get_looks", "get_connections",
    "get_projects" }

\* C22: for a successful upstream response lookerApiCall gives the parsed
\* value when the content-type is JSON and the body text, unparsed, otherwise,
\* also when the content-type is missing; a tool that returns its call's value
\* returns just that.
C22_ContentType ==
  \A s \in Slots :
    /\ \A k \in DOMAIN answers[s] :
         ~Failed(answers[s][k]) =>
           \/ lookerApiCall(answers[s][k]).thrown
                /\ IsJsonType(answers[s][k].ctype) /\ answers[s][k].body.enc = "raw"
           \/ ~lookerApiCall(answers[s][k]).thrown
                /\ ClientGives(answers[s][k], lookerApiCall(answers[s][k]).v)
    /\ \A n \in PassThrough :
         (Done(s) /\ ToolCall(s, n) /\ ~Failed(answers[s][1])
            /\ ~lookerApiCall(answers[s][1]).thrown) =>
           /\ IsResult(Reply(s))
           /\ ClientGives(answers[s][1], toolResult[s])

\* get_connections was answered with a JSON array and no content-type, and
\* returned the array's text as a string.
C22_Witness ==
  \E s \in Slots :
    /\ Done(s) /\ ToolCall(s, "get_connections")
    /\ answers[s][1].status = 200 /\ answers[s][1].ctype = Null
    /\ answers[s][1].body.enc = "json"
    /\ answers[s][1].body.value.t = "array"
    /\ toolResult[s].t = "string"
    /\ JSONParse(toolResult[s].v) = answers[s][1].body.value

\* ------------------------------------------------------------------- C23
Initialized(s) ==
  /\ Done(s) /\ req[s].method = Str("initialize")
  /\ Credentialed(req[s].authorization)

\* C23: initialize with a credential is answered 200 with a result of three
\* parts: the protocol version "2025-06-18", capabilities that declare tools
\* with listChanged false and nothing else, and the server's name and version;
\* no upstream call is made and the result does not depend on the credential.
C23_Initialize ==
  \A s \in Slots :
    Initialized(s) =>
      LET result == Reply(s).body["result"] IN
      /\ Reply(s).status = 200 /\ IsResult(Reply(s))
      /\ calls[s] = <<>>
      /\ DOMAIN result.v = {"protocolVersion", "capabilities", "serverInfo"}
      /\ Get(result, "protocolVersion") = Str("2025-06-18")
      /\ DOMAIN Get(result, "capabilities").v = {"tools"}
      /\ Get(Get(result, "capabilities"), "tools") = Obj([listChanged |-> Bool(FALSE)])
      /\ Get(result, "serverInfo") =
           Obj([name |-> Str("looker-oauth-proxy"), version |-> Str("2.0.0")])

\* initialize was answered for the token t2.
C23_Witness ==
  \E s \in Slots :
    /\ Initialized(s)
    /\ req[s].authorization = Str("Bearer t2")
    /\ accessToken[s] = Str("t2")
    /\ Get(Reply(s).body["result"], "protocolVersion") = Str("2025-06-18")

\* ------------------------------------------------------------------- C24
\* Upstream non-success responses whose text does not read as a 401.
PlainFailures ==
  { f \in Failures : f.status # 401 /\ ~Includes(BodyText(f.body), "401") }
\* What the handler does when the awaited call settles with the answer.
Settled(s, answer) == resumeMcpRequest(req[s], accessToken[s], loc[s], answer)
\* Two continuations of the handler are of one kind: the same error response
\* but for the message, or the same next step, or both a result.
SameTreatment(a, b) ==
  /\ a.k = b.k
  /\ a.k = "respond" =>
       /\ a.status = b.status
       /\ Has(a.body, "error") = Has(b.body, "error")
       /\ Has(a.body, "error") =>
            Get(a.body["error"], "code") = Get(b.body["error"], "code")
  /\ a.k = "await" => a.call = b.call
\* The last upstream call of the ended tool call on s failed at network level.
Unreachable(s) ==
  /\ Done(s) /\ NamedCall(s) /\ Credentialed(req[s].authorization)
  /\ answers[s] # <<>>
  /\ answers[s][Len(answers[s])].k = "net"

\* C24: at every await the handler treats a network failure as it treats an
\* upstream non-success response. A network failure that ends the call with an
\* error ends it with code -32603 and HTTP 500, and one that hits an element
\* run of run_dashboard becomes that element's entry, with `error` and without
\* `data`.
C24_TransportError ==
  \A s \in Slots :
    /\ pc[s] = "await" =>
         \A f \in PlainFailures :
           SameTreatment(Settled(s, NetFailure), Settled(s, f))
    /\ (Unreachable(s) /\ IsError(Reply(s))) =>
         /\ Reply(s).status = 500
         /\ ErrorCode(Reply(s)) = Num(-32603)
    /\ (Done(s) /\ ElementsListed(s)) =>
         \A i \in 1..Len(QueryElements(s)) :
           answers[s][i + 1].k = "net" =>
             /\ IsResult(Reply(s))
             /\ Has(toolResult[s].v[i].v, "error")
             /\ ~Has(toolResult[s].v[i].v, "data")

\* run_dashboard could not reach the upstream for its first element and ran
\* the second: the result has the first's `error` entry and the second's data.
C24_Witness ==
  \E s \in Slots :
    /\ Done(s) /\ ElementsListed(s)
    /\ Len(QueryElements(s)) = 2
    /\ answers[s][2].k = "net"
    /\ ~Failed(answers[s][3])
    /\ Get(toolResult[s].v[1], "error") = Str("fetch failed")
    /\ Has(toolResult[s].v[2].v, "data")

\* ------------------------------------------------------------------- C25
\* Two requests in flight that differ in nothing but the token, with the same
\* upstream answers so far.
SameButToken(s, o) ==
  /\ DifferentTokens(s, o)
  /\ [req[s] EXCEPT !.authorization = Undef] = [req[o] EXCEPT !.authorization = Undef]
  /\ answers[s] = answers[o]

\* C25: no line logged for a request contains its token. The request's own
\* line says `present` or `missing`, by whether a token was extracted, and two
\* requests that differ only in the token leave the same lines.
C25_NoTokenInLogs ==
  \A s \in SessionSlots :
    /\ Handling(s) =>
         /\ console[s] # <<>>
         /\ console[s][1] =
              "[MCP] " \o req[s].method.v \o " - Auth: "
                \o (IF Credentialed(req[s].authorization) THEN "present" ELSE "missing")
    /\ Credentialed(req[s].authorization) =>
         \A k \in DOMAIN console[s] :
           ~Includes(console[s][k], Slice(req[s].authorization.v, 7))
    /\ \A o \in SessionSlots :
         SameButToken(s, o) => console[s] = console[o]

\* Two failed calls of the same tool under the tokens t1 and t2 have logged
\* the same three lines: the request, the upstream call, the error.
C25_Witness ==
  /\ SameButToken("c1", "c2")
  /\ Done("c1") /\ Done("c2")
  /\ IsError(Reply("c1"))
  /\ Len(console["c1"]) = 3
  /\ console["c1"][1] = "[MCP] tools/call - Auth: present"
  /\ console["c1"][2] = "[Looker API] GET /api/4.0/lookml_models"
  /\ console["c2"] = console["c1"]

\* ------------------------------------------------------------------- C26
SearchKeys == {"title", "desc", "limit", "offset"}
\* The name of the upstream's parameter for a search argument.
WireName(k) == IF k = "desc" THEN "description" ELSE k
DashboardSearch(s) == ToolCall(s, "get_dashboards") /\ calls[s] # <<>>
SearchUrl(s) == calls[s][1].url
TextOf(s) == Reply(s).body["result"].v["content"].v[1].v["text"].v

ListedNow ==
  handleMcpRequest([method |-> Str("tools/list"), params |-> Undef,
                    id |-> Num(1), authorization |-> Undef], Null, tools)
DescriptorsNow == Len(ListedNow.body["result"].v["tools"].v)

\* C27: GET / answers 200 with status "ok" whether or not the request carries
\* a credential, and its tools_count is the number of descriptors tools/list
\* returns in the same state; it issues no upstream call and logs nothing.
C27_Health ==
  \A s \in Slots :
    Served(s) =>
      /\ Len(res[s]) = 1
      /\ Reply(s).status = 200
      /\ Reply(s).body = [status |-> Str("ok"), service |-> Str("looker-oauth-proxy"),
                          version |-> Str("2.0.0"),
                          tools_count |-> Num(DescriptorsNow)]
      /\ DescriptorsNow = Len(ToolNames)
      /\ calls[s] = <<>> /\ console[s] = <<>>

\* GET / without a credential was answered with the size of the registry.
C27_Witness ==
  \E s \in Slots :
    /\ Served(s) /\ req[s].authorization = Undef
    /\ Reply(s).status = 200
    /\ Reply(s).body["tools_count"] = Num(Len(ToolNames))
    /\ Len(ToolNames) > 1

\* ------------------------------------------------------------------- C28
RegisteredNames == { ToolNames[i] : i \in DOMAIN ToolNames }
CallsUpstream(s) == calls[s] # <<>> \/ pc[s] = "await"
NoUpstreamMethods ==
  { Str("initialize"), Str("notifications/initialized"), Str("ping"),
    Str("tools/list") }

\* C28: an upstream call is issued only while handling a tools/call request
\* that carries a credential and names a registered tool. initialize,
\* notifications/initialized, ping, tools/list, a method that is not
\* implemented, a request rejected for its missing credential and a tools/call
\* naming no registered tool issue none.
C28_UpstreamOnlyForTools ==
  /\ [](\A s \in Slots :
       /\ CallsUpstream(s) =>
            /\ req[s].method = Str("tools/call")
            /\ Credentialed(req[s].authorization)
            /\ Truthy(accessToken[s])
            /\ req[s].params.t = "object"
            /\ Get(req[s].params, "name").t = "string"
            /\ ToolOf(s) \in RegisteredNames
            /\ ToolOf(s) \in { n.v : n \in CatalogNames }
       /\ (Handling(s) /\ req[s].method # Str("tools/call")) => ~CallsUpstream(s)
       /\ (Handling(s) /\ ~Credentialed(req[s].authorization)) => ~CallsUpstream(s))
  /\ [][\A s \in Slots :
          calls'[s] # calls[s] =>
            \/ calls'[s] = <<>>
            \/ /\ req'[s].method = Str("tools/call")
               /\ Credentialed(req'[s].authorization)
               /\ ToolOf(s)' \in RegisteredNames]_vars

\* A tools/call with a credential named a tool that is not registered and was
\* answered with an error without any upstream call.
C28_Witness ==
  \E s \in Slots :
    /\ Done(s) /\ req[s].method = Str("tools/call")
    /\ Credentialed(req[s].authorization)
    /\ ToolOf(s) = "run_query" /\ ~(ToolOf(s) \in RegisteredNames)
    /\ IsError(Reply(s)) /\ calls[s] = <<>>

\* ------------------------------------------------------------------- C29
ListedElements(s) == lookerApiCall(answers[s][1]).v.v
EntryKeys == {"element_id", "title", "data", "error"}
QueryRunUrl(element) ==
  LOOKER_BASE_URL \o "/api/4.0/queries/" \o ToStr(Get(element, "query_id"))
    \o "/run/json"

\* C29: the result of run_dashboard is an array with exactly one entry per
\* listed element that references a query, in the order of the listing; each
\* entry carries the element's identifier and exactly one of `data` and
\* `error`. After the listing, the upstream calls are the runs of those
\* elements' queries, in the same order: an element without a query gets no
\* entry and no call.
C29_OneEntryPerQueryElement ==
  \A s \in Slots :
    ElementsListed(s) =>
      /\ Len(calls[s]) <= 1 + Len(QueryElements(s))
      /\ \A k \in 2..Len(calls[s]) :
           /\ calls[s][k].method = "GET"
           /\ calls[s][k].url = QueryRunUrl(QueryElements(s)[k - 1])
      /\ Done(s) =>
           /\ Len(calls[s]) = 1 + Len(QueryElements(s))
           /\ [k \in DOMAIN toolResult[s].v |-> toolResult[s].v[k].v["element_id"]]
                = [k \in DOMAIN QueryElements(s) |-> Get(QueryElements(s)[k], "id")]
           /\ \A k \in DOMAIN toolResult[s].v :
                LET entry == toolResult[s].v[k] IN
                /\ entry.t = "object"
                /\ DOMAIN entry.v \subseteq EntryKeys
                /\ Has(entry.v, "element_id")
                /\ Has(entry.v, "data") # Has(entry.v, "error")
           /\ \A e \in Range(ListedElements(s)) :
                ~Has(e.v, "query_id") =>
                  \A k \in DOMAIN toolResult[s].v :
                    toolResult[s].v[k].v["element_id"] # Get(e, "id")

\* The dashboard lists an element without a query and then one with a query:
\* the result has the one entry of the second, after one query run.
C29_Witness ==
  \E s \in Slots :
    /\ ElementsListed(s) /\ Done(s)
    /\ ListedElements(s) = <<Element3, Element1>>
    /\ Len(calls[s]) = 2
    /\ calls[s][2].url = LOOKER_BASE_URL \o "/api/4.0/queries/q1/run/json"
    /\ Len(toolResult[s].v) = 1
    /\ toolResult[s].v[1].v["element_id"] = Str("e1")
    /\ Has(toolResult[s].v[1].v, "data")

\* ------------------------------------------------------------------- C30
\* The call that lists the dashboard's elements was answered and failed.
ListingFailed(s) ==
  /\ NamedCall(s) /\ Credentialed(req[s].authorization)
  /\ Get(req[s].params, "name") = Str("run_dashboard")
  /\ Len(answers[s]) >= 1
  /\ lookerApiCall(answers[s][1]).thrown

\* C30: when the call listing the dashboard's elements fails, run_dashboard
\* fails as a whole: the tools/call is answered at once with a JSON-RPC error
\* and no result, the listing is the only upstream call, and no element's
\* query is run.
C30_ListingFailureFailsWhole ==
  \A s \in Slots :
    ListingFailed(s) =>
      /\ Done(s)
      /\ Len(res[s]) = 1
      /\ IsError(Reply(s))
      /\ Reply(s).status \in {401, 500}
      /\ ErrorCode(Reply(s)) = Num(-32603)
      /\ ErrorMessage(Reply(s)) = lookerApiCall(answers[s][1]).msg
      /\ toolResult[s] = Undef
      /\ Len(calls[s]) = 1 /\ Len(answers[s]) = 1
      /\ \A k \in DOMAIN calls[s] :
           ~Includes(calls[s][k].url, "/api/4.0/queries/")

\* The listing of run_dashboard was unreachable and the call failed with only
\* that one upstream request.
C30_Witness ==
  \E s \in Slots :
    /\ ListingFailed(s) /\ Done(s)
    /\ answers[s] = <<NetFailure>>
    /\ IsError(Reply(s)) /\ Reply(s).status = 500
    /\ Len(calls[s]) = 1
    /\ Includes(calls[s][1].url, "/dashboard_elements")

\* ------------------------------------------------------------------- C31
\* A tools/call whose request carries no credential.
UncredentialedCall(s) ==
  /\ Handling(s) /\ req[s].method = Str("tools/call")
  /\ ~Credentialed(req[s].authorization)
\* The request names no registered tool, or has no params to name one with.
Unresolvable(s) ==
  \/ req[s].params.t # "object"
  \/ Get(req[s].params, "name").t # "string"
  \/ ToolOf(s) \notin { ToolNames[i] : i \in DOMAIN ToolNames }

\* C31: a tools/call without a credential is answered in the step that
\* receives it, with HTTP 401, code -32600 and the message "OAuth
\* authentication required", whatever its params are: also when it has no
\* params or names an unknown tool. The catch block is never entered (no
\* error is logged, the code is never -32603) and no upstream call is issued.
C31_CredentialCheckFirst ==
  \A s \in Slots :
    UncredentialedCall(s) =>
      /\ Done(s) /\ Len(res[s]) = 1
      /\ Reply(s).status = 401
      /\ IsError(Reply(s))
      /\ ErrorCode(Reply(s)) = Num(-32600)
      /\ ErrorCode(Reply(s)) # Num(-32603)
      /\ ErrorMessage(Reply(s)) = "OAuth authentication required"
      /\ calls[s] = <<>> /\ toolResult[s] = Undef
      /\ console[s] = <<"[MCP] tools/call - Auth: missing">>

\* A tools/call without params and without a credential got the 401 auth
\* error.
C31_Witness ==
  \E s \in Slots :
    /\ UncredentialedCall(s) /\ Unresolvable(s)
    /\ req[s].params = Undef
    /\ Reply(s).status = 401
    /\ ErrorCode(Reply(s)) = Num(-32600)

\* ------------------------------------------------------------------- C32
\* The upstream calls a request can need: the listing and one run per element
\* with a query for run_dashboard, at most three for every other tool.
CallBudget(s) ==
  IF ToolOf(s) = "run_dashboard"
    THEN 1 + (IF ElementsListed(s) THEN Len(QueryElements(s)) ELSE 0)
    ELSE 3
\* The last upstream call of a sequence of several failed.
ThrewAfterProgress(s) ==
  /\ Len(answers[s]) >= 2
  /\ ~lookerApiCall(answers[s][1]).thrown
  /\ lookerApiCall(answers[s][Len(answers[s])]).thrown

\* C32: when every upstream call settles, every request of POST /mcp gets
\* exactly one response: none is sent before the handler is through, one is
\* there when it is, the response of a request is never followed by another,
\* the number of upstream calls of a request is bounded, and a request waiting
\* for the upstream is eventually answered, also when a later call of a
\* sequence fails.
C32_ExactlyOneResponse ==
  /\ [](\A s \in Slots :
         /\ pc[s] \in {"idle", "await"} => res[s] = <<>>
         /\ Done(s) => Len(res[s]) = 1
         /\ Handling(s) => Len(calls[s]) <= CallBudget(s)
         /\ (Done(s) /\ ThrewAfterProgress(s)) =>
              Len(res[s]) = 1 /\ IsError(Reply(s)) # IsResult(Reply(s)))
  /\ [][\A s \in Slots :
          /\ res'[s] # res[s] =>
               \/ res[s] = <<>> /\ Len(res'[s]) = 1
               \/ res'[s] = <<>> /\ pc'[s] = "idle"
          /\ Done(s) => (Done(s)' /\ res'[s] = res[s]) \/ pc'[s] = "idle"]_vars
  /\ \A s \in Slots : (pc[s] = "await") ~> Done(s)

\* make_look was answered once, with an error, after its second upstream
\* call failed.
C32_Witness ==
  \E s \in Slots :
    /\ Done(s) /\ ToolOf(s) = "make_look"
    /\ ThrewAfterProgress(s)
    /\ Len(res[s]) = 1 /\ IsError(Reply(s))
====
